---- MODULE Spec2Model ----
(***************************************************************************)
(* Auctor: streaming AI-completion dispatch and chapter-document           *)
(* reconciliation.                                                         *)
(*                                                                         *)
(* Strings are sequences of tokens.  A token is one character, or one of   *)
(* the six tag delimiters taken as a unit, so that the regular             *)
(* expressions of the source act on tokens.                                *)
(***************************************************************************)
EXTENDS Integers, Sequences, FiniteSets, TLC

\* ------------------------------------------------------------------ bounds
MaxLen == 2        \* longest text / critique / raw content drawn as an input
MaxSetLen == 1     \* longest chapter-settings field drawn as an input
MaxSessions == 2   \* completion requests sent to the main process in one run
MaxChunks == 2     \* text parts one provider stream delivers
MaxInbox == 2      \* events sent to the window and not yet handled
MaxUserSteps == 4  \* file selections and cursor moves in one run of a rewrite
MaxDispatchSteps == 3  \* file selections and cursor moves in one run of both flows
MaxChatSteps == 3  \* file selections, keystrokes, tab clicks and saves in one run of a chat
MaxPanelSteps == 2 \* clicks on the focus-mode button in one run of the panel
MaxOrderLen == 2   \* names in an array handed to 'set-chapter-order'

\* ------------------------------------------------------------- strings
WS == {" ", "\n"}
OpenTags == {"<text>", "<settings>", "<critique>"}
CloseTags == {"</text>", "</settings>", "</critique>"}
TagTokens == OpenTags \cup CloseTags

\* All sequences over alphabet A of length at most n.
StrsUpTo(A, n) == UNION {[1..k -> A] : k \in 0..n}

\* String.prototype.includes for one token.
Includes(s, tok) == \E i \in 1..Len(s) : s[i] = tok

HasAny(s, toks) == \E i \in 1..Len(s) : s[i] \in toks

\* Index of the first occurrence of tok in s at or after position from; 0 if none.
IndexFrom(s, tok, from) ==
  IF \E i \in from..Len(s) : s[i] = tok
  THEN CHOOSE i \in from..Len(s) :
         s[i] = tok /\ \A j \in from..(i - 1) : s[j] # tok
  ELSE 0

\* String.prototype.trim: strips white space at both ends.
RECURSIVE TrimLeft(_)
TrimLeft(s) == IF s # <<>> /\ Head(s) \in WS THEN TrimLeft(Tail(s)) ELSE s

RECURSIVE TrimRight(_)
TrimRight(s) ==
  IF s # <<>> /\ s[Len(s)] \in WS THEN TrimRight(SubSeq(s, 1, Len(s) - 1)) ELSE s

Trim(s) == TrimRight(TrimLeft(s))

\* content.match(/<tag>([\s\S]*?)<\/tag>/): the leftmost open tag that has a
\* close tag after it, and the shortest such span.  A close tag after a later
\* open tag is also after the first one, so the first open tag decides.
Match(s, open, close) ==
  LET i == IndexFrom(s, open, 1)
      j == IF i = 0 THEN 0 ELSE IndexFrom(s, close, i + 1)
  IN  IF i = 0 \/ j = 0
      THEN [found |-> FALSE, inner |-> <<>>]
      ELSE [found |-> TRUE, inner |-> SubSeq(s, i + 1, j - 1)]

\* ---------------------------------------------------------------- JSON
\* JSON.stringify of a string: quoted, with quote, backslash and newline escaped.
RECURSIVE Escape(_)
Escape(s) ==
  IF s = <<>> THEN <<>>
  ELSE (CASE Head(s) = "\"" -> <<"\\", "\"">>
          [] Head(s) = "\\" -> <<"\\", "\\">>
          [] Head(s) = "\n" -> <<"\\", "n">>
          [] OTHER -> <<Head(s)>>) \o Escape(Tail(s))

JsonString(s) == <<"\"">> \o Escape(s) \o <<"\"">>

\* JSON.stringify({summary, ageOffset, style}, null, 2): one member per line,
\* indented by two spaces.  A key is one token, "summary".
JsonMember(key, val) == <<" ", " ", key, ":", " ">> \o JsonString(val)

\* JSON.stringify that would not escape its strings.
settingsJsonUnescaped(d) ==
  LET member(key, val) == <<" ", " ", key, ":", " ", "\"">> \o val \o <<"\"">> IN
  <<"{", "\n">> \o member("summary", d.summary) \o <<",", "\n">>
    \o member("ageOffset", d.ageOffset) \o <<",", "\n">>
    \o member("style", d.style) \o <<"\n", "}">>

settingsJson(d) ==
  <<"{", "\n">> \o JsonMember("summary", d.summary) \o <<",", "\n">>
    \o JsonMember("ageOffset", d.ageOffset) \o <<",", "\n">>
    \o JsonMember("style", d.style) \o <<"\n", "}">>

\* --- JSON.parse, for the values a settings section holds: an object whose
\* members are strings, a bare number, or null; anything else is a SyntaxError.
SkipWS(s, i) ==
  IF \E j \in i..Len(s) : s[j] \notin WS
  THEN CHOOSE j \in i..Len(s) : s[j] \notin WS /\ \A k \in i..(j - 1) : s[k] \in WS
  ELSE Len(s) + 1

\* Reads the characters of a string literal from position i (after the opening
\* quote).  Result: [ok, val, next] with next the position after the closing quote.
RECURSIVE ReadString(_, _, _)
ReadString(s, i, acc) ==
  IF i > Len(s) THEN [ok |-> FALSE, val |-> <<>>, next |-> i]
  ELSE IF s[i] = "\"" THEN [ok |-> TRUE, val |-> acc, next |-> i + 1]
  ELSE IF s[i] = "\n" THEN [ok |-> FALSE, val |-> <<>>, next |-> i]
  ELSE IF s[i] = "\\"
       THEN IF i + 1 > Len(s) THEN [ok |-> FALSE, val |-> <<>>, next |-> i]
            ELSE IF s[i + 1] \in {"\"", "\\"}
                 THEN ReadString(s, i + 2, Append(acc, s[i + 1]))
            ELSE IF s[i + 1] = "n" THEN ReadString(s, i + 2, Append(acc, "\n"))
            ELSE [ok |-> FALSE, val |-> <<>>, next |-> i]
  ELSE ReadString(s, i + 1, Append(acc, s[i]))

NoJson == [ok |-> FALSE, kind |-> "error", obj |-> <<>>]

\* Reads members from position i (at a key); obj is a sequence of <<key, val>>.
RECURSIVE ReadMembers(_, _, _)
ReadMembers(s, i, obj) ==
  LET k == SkipWS(s, i) IN
  IF k + 1 > Len(s) \/ s[k + 1] # ":" \/ s[k] \in WS \cup {"\"", "{", "}", ",", ":"}
  THEN NoJson
  ELSE LET q == SkipWS(s, k + 2) IN
       IF q > Len(s) \/ s[q] # "\"" THEN NoJson
       ELSE LET r == ReadString(s, q + 1, <<>>) IN
            IF ~r.ok THEN NoJson
            ELSE LET e == SkipWS(s, r.next)
                     o == Append(obj, <<s[k], r.val>>)
                 IN  IF e > Len(s) THEN NoJson
                     ELSE IF s[e] = "," THEN ReadMembers(s, e + 1, o)
                     ELSE IF s[e] = "}" /\ SkipWS(s, e + 1) > Len(s)
                          THEN [ok |-> TRUE, kind |-> "object", obj |-> o]
                     ELSE NoJson

JsonParse(s) ==
  LET i == SkipWS(s, 1) IN
  IF i > Len(s) THEN NoJson
  ELSE IF s[i] = "{"
       THEN LET k == SkipWS(s, i + 1) IN
            IF k <= Len(s) /\ s[k] = "}" /\ SkipWS(s, k + 1) > Len(s)
            THEN [ok |-> TRUE, kind |-> "object", obj |-> <<>>]
            ELSE ReadMembers(s, i + 1, <<>>)
  ELSE IF s[i] \in {"0", "1"} /\ SkipWS(s, i + 1) > Len(s)
       THEN [ok |-> TRUE, kind |-> "number", obj |-> <<>>]
  ELSE IF s[i] = "null" /\ SkipWS(s, i + 1) > Len(s)
       THEN [ok |-> TRUE, kind |-> "null", obj |-> <<>>]
  ELSE NoJson

\* parsed.key || '': the value of the last member named key, '' when there is
\* none (a later duplicate member wins in JSON.parse).
Member(obj, key) ==
  IF \E i \in 1..Len(obj) : obj[i][1] = key
  THEN obj[CHOOSE i \in 1..Len(obj) :
             obj[i][1] = key /\ \A j \in (i + 1)..Len(obj) : obj[j][1] # key][2]
  ELSE <<>>

\* ------------------------------------------------- the chapter document
\* The state of a ChapterCard: the five useState fields of the three sections.
EmptyDoc ==
  [text |-> <<>>, summary |-> <<>>, ageOffset |-> <<>>, style |-> <<>>,
   critique |-> <<>>]

\* A settings branch whose catch block would drop a section it cannot parse.
ParseSettingsStrict(prev, rawSettings) ==
  LET p == JsonParse(rawSettings) IN
  IF p.ok /\ p.kind = "object"
  THEN [prev EXCEPT !.summary = Member(p.obj, "summary"),
                    !.ageOffset = Member(p.obj, "ageOffset"),
                    !.style = Member(p.obj, "style")]
  ELSE [prev EXCEPT !.summary = <<>>, !.ageOffset = <<>>, !.style = <<>>]

\* The body of the catch-free part of the settings branch: what the setters
\* receive for the trimmed inner string of the settings section.
ParseSettings(prev, rawSettings) ==
  LET p == JsonParse(rawSettings) IN
  IF p.ok /\ p.kind = "object"
  THEN [prev EXCEPT !.summary = Member(p.obj, "summary"),
                    !.ageOffset = Member(p.obj, "ageOffset"),
                    !.style = Member(p.obj, "style")]
  ELSE IF p.ok /\ p.kind = "number"
  THEN [prev EXCEPT !.summary = <<>>, !.ageOffset = <<>>, !.style = <<>>]
  ELSE \* SyntaxError, or TypeError on null.summary: the catch branch
       [prev EXCEPT !.summary = rawSettings]

\* A parse effect that would take the legacy branch only for a content without
\* any open tag.
InitialParseAnyTag(prev, content) ==
  IF ~HasAny(content, OpenTags)
  THEN [prev EXCEPT !.text = content]
  ELSE LET textMatch == Match(content, "<text>", "</text>")
           settingsMatch == Match(content, "<settings>", "</settings>")
           critiqueMatch == Match(content, "<critique>", "</critique>")
           d1 == IF textMatch.found
                 THEN [prev EXCEPT !.text = Trim(textMatch.inner)] ELSE prev
           d2 == IF settingsMatch.found
                 THEN ParseSettings(d1, Trim(settingsMatch.inner)) ELSE d1
       IN  IF critiqueMatch.found
           THEN [d2 EXCEPT !.critique = Trim(critiqueMatch.inner)] ELSE d2

\* The "Initial Parse" effect: the setters it calls on the state prev.
InitialParse(prev, content) ==
  IF ~Includes(content, "<text>")
  THEN [prev EXCEPT !.text = content]
  ELSE LET textMatch == Match(content, "<text>", "</text>")
           settingsMatch == Match(content, "<settings>", "</settings>")
           critiqueMatch == Match(content, "<critique>", "</critique>")
           d1 == IF textMatch.found
                 THEN [prev EXCEPT !.text = Trim(textMatch.inner)] ELSE prev
           d2 == IF settingsMatch.found
                 THEN ParseSettings(d1, Trim(settingsMatch.inner)) ELSE d1
       IN  IF critiqueMatch.found
           THEN [d2 EXCEPT !.critique = Trim(critiqueMatch.inner)] ELSE d2

\* parse of the specification: the state of a freshly mounted ChapterCard.
Parse(content) == InitialParse(EmptyDoc, content)

\* A handleSave that would write the critique before the settings.
fileDataCritiqueFirst(d) ==
  Trim(<<"\n", "<text>", "\n">> \o d.text
         \o <<"\n", "</text>", "\n", "<critique>", "\n">> \o d.critique
         \o <<"\n", "</critique>", "\n", "<settings>", "\n">> \o settingsJson(d)
         \o <<"\n", "</settings>", "\n">>)

\* handleSave: the file it hands to onSave.
fileData(d) ==
  Trim(<<"\n", "<text>", "\n">> \o d.text
         \o <<"\n", "</text>", "\n", "<settings>", "\n">> \o settingsJson(d)
         \o <<"\n", "</settings>", "\n", "<critique>", "\n">> \o d.critique
         \o <<"\n", "</critique>", "\n">>)

\* A handleCritiqueReceived that would write an empty settings section.
newContentNoSettings(content, critiqueText) ==
  LET textMatch == Match(content, "<text>", "</text>")
      t == IF textMatch.found
           THEN <<"<text>">> \o textMatch.inner \o <<"</text>", "\n">>
           ELSE <<"<text>">> \o content \o <<"</text>", "\n">>
  IN  t \o <<"<settings>", "</settings>", "\n", "<critique>", "\n">>
        \o critiqueText \o <<"\n", "</critique>">>

\* handleCritiqueReceived: the content it stores and saves (injectCritique).
newContent(content, critiqueText) ==
  LET textMatch == Match(content, "<text>", "</text>")
      settingsMatch == Match(content, "<settings>", "</settings>")
      t == IF textMatch.found
           THEN <<"<text>">> \o textMatch.inner \o <<"</text>", "\n">>
           ELSE <<"<text>">> \o content \o <<"</text>", "\n">>
      s == IF settingsMatch.found
           THEN <<"<settings>">> \o settingsMatch.inner \o <<"</settings>", "\n">>
           ELSE <<"<settings>", "</settings>", "\n">>
  IN  t \o s \o <<"<critique>", "\n">> \o critiqueText \o <<"\n", "</critique>">>

\* ==================================================== the application
\* Main process (electron/main.ts):
\*   sess     the completion requests, in the order the renderer sent them.  Each
\*            is one run of an ipcMain.on handler: chan the channel, pc its
\*            position ("sent": the request is in flight to the main process,
\*            "stream": reading the settings, awaiting streamText and iterating
\*            result.textStream, "done"), k the parts sent so far, out the events
\*            it has sent.  crit, own and file record the request: whether the
\*            critique action started it, whether the ChapterCard instance now
\*            mounted started it, and the active file of a chat request.
\*   inbox    the events sent to the window and not yet handled, in order.
\* Renderer, App (src/unnamed/part_000):
\*   disk        the project's chapter files;
\*   activeFile  the activeFile state, name "" for null.
\* Renderer, ChapterCard (src/src/components/ChapterCard.tsx): card, the mounted
\*   instance: d (textContent, the settings fields and critiqueContent),
\*   activeTab, the editor's document doc and selection sel, isRewritingRef, and
\*   pending: the runRewrite calls that await fetchProjectContext, each with the
\*   mode and selected text it captured.  base, at, ins and touched record the
\*   rewrite in progress: the document and cursor after the selection was
\*   deleted, what the listeners inserted since, and whether the user moved the
\*   cursor or the text was reloaded since.  orphan: the runRewrite calls of unmounted
\*   instances that still await fetchProjectContext.
\* Renderer, AIChatPanel (src/src/components/AIChatPanel.tsx): isLoading,
\*   streamingContent, messages, externalThinkingCount, aiMode (the session
\*   storage item 'ai-mode'), critiquePc (handleCritique: "idle" or "gathering"),
\*   and closure: the streamingContent and activeFile that the listeners
\*   registered by the last effect run have captured.
\* lastOp  the event whose listeners ran last, or a user action; steps the
\*   actions of the user in the editor area so far.
VARIABLES sess, inbox, disk, activeFile, card, orphan,
          isLoading, streamingContent, messages, externalThinkingCount, aiMode,
          critiquePc, closure, lastOp, steps

mainVars == <<sess, inbox>>
appVars == <<disk, activeFile>>
cardVars == <<card, orphan>>
panelVars == <<isLoading, streamingContent, messages, externalThinkingCount,
               aiMode, critiquePc>>
avars == <<mainVars, appVars, cardVars, panelVars, closure, lastOp, steps>>

\* ------------------------------------- the tag model on drawn inputs
\* The document functions applied to inputs drawn from bounded sets:
\*   tPc      the position: "start", then "saved" -> "reloaded" (handleSave, then
\*            the parse effect on the saved file), "parsed" (the parse effect on
\*            tRaw), or "injected" -> "reinjected" (handleCritiqueReceived on
\*            tRaw and tCrit, then the parse effect on its result);
\*   tDoc     the ChapterCard state handed to handleSave;
\*   tRaw     a file content; tCrit a critique text;
\*   tOut     the file content produced; tParsed the state parsed from it.
VARIABLES tPc, tDoc, tRaw, tCrit, tOut, tParsed

tvars == <<tPc, tDoc, tRaw, tCrit, tOut, tParsed>>

\* Main process, provider gateway (electron/main.ts):
\*   projectRoot  PROJECT_ROOT, the folder of the open project;
\*   auctorJson   the auctor.json of each project folder: ok (the file can be
\*                read and parsed), and settings.aiProvider and
\*                settings.googleModel, empty when the member is missing;
\*   envFile      the .env of each project folder: ok (the file can be read) and
\*                the value of each key line, empty when the line is missing;
\*   processEnv   the three key variables of process.env, empty when unset;
\*   lastRequest  the last completion request: its channel, the configuration
\*                its handler read, the model handle it built and the outcome
\*                of the call.
VARIABLES projectRoot, auctorJson, envFile, processEnv, lastRequest

gvars == <<projectRoot, auctorJson, envFile, processEnv, lastRequest>>

\* The critique prompt on drawn inputs (handleCritique):
\*   qPc       "start", then "built";
\*   qProject  the auctor.json of the project: overview, and settings;
\*   qContent  the content of the open chapter (contextContent);
\*   qEntity   the content of the one character file;
\*   qPrompt   the prompt sent on 'generate-ai-completion'.
VARIABLES qPc, qProject, qContent, qEntity, qPrompt

qvars == <<qPc, qProject, qContent, qEntity, qPrompt>>

\* Renderer, App: focusMode, the focus mode that hides the file tree and the
\* chat panel; kept: the AIChatPanel has not been unmounted so far.
VARIABLES focusMode, kept

focusVars == <<focusMode, kept>>

\* The rewrite prompt on drawn inputs (ChapterCard, runRewrite):
\*   wPc      "mounted", then "sent";
\*   wStyle   the style state of the ChapterCard;
\*   wSeen    the style in the closure of the effect that registered the
\*            rewrite listeners;
\*   wDoc, wSel  the editor's document and selection;
\*   wFiles   the files 'get-files' lists, each with its category, name,
\*            whether 'read-file' succeeds, and its content;
\*   wPrompt  the prompt sent on 'rewrite-text-completion'.
VARIABLES wPc, wStyle, wSeen, wDoc, wSel, wFiles, wPrompt

wvars == <<wPc, wStyle, wSeen, wDoc, wSel, wFiles, wPrompt>>

\* Main process, chapter order and export (electron/main.ts), and FileTree:
\*   chaptersDir   the names of the files in the Chapters folder of each project;
\*   chapterOrder  settings.chapterOrder in the auctor.json of each project,
\*                 empty when the member or the file is missing;
\*   oOp, oArg     the handler of the chapter files, the order, the settings or
\*                 the export that ran last, and the order it was given;
\*   oOrder        the order that 'get-chapter-order' or 'set-chapter-order'
\*                 returned last, which the file tree shows;
\*   pdf           the chapter pages and the table-of-contents entries of the
\*                 last export.
VARIABLES chaptersDir, chapterOrder, oOp, oArg, oOrder, pdf

ovars == <<chaptersDir, chapterOrder, oOp, oArg, oOrder, pdf>>

\* What the actions of the editor and of the chat leave alone.
idle == <<tvars, gvars, qvars, focusVars, wvars, ovars>>

vars == <<tvars, avars, gvars, qvars, focusVars, wvars, ovars>>

TextChars == {"a", " ", "</text>"}
CritChars == {"b", "\n", "</critique>"}
FieldChars == {"a", "\"", "\\"}
RawChars == {"a", " ", "<text>", "</text>", "<settings>", "</settings>"}

DrawnDocs ==
  [text : StrsUpTo(TextChars, MaxLen),
   summary : StrsUpTo(FieldChars, MaxSetLen),
   ageOffset : {<<>>, <<"1">>},
   style : {<<>>, <<"\n">>, <<"a", " ">>},
   critique : StrsUpTo(CritChars, MaxLen)]

\* File contents: short ones over the tags, and the saved form of a few documents
\* with a hand-edited tail.
DrawnRaws ==
  StrsUpTo(RawChars, MaxLen + 1)
    \cup {fileData(d) \o tail :
            d \in [text : {<<"a">>, <<"<settings>">>}, summary : {<<"a">>},
                   ageOffset : {<<>>}, style : {<<"\"">>},
                   critique : {<<>>, <<"b">>}],
            tail \in {<<>>, <<"\n">>}}
    \cup {<<"<text>", "a", "</text>", "<settings>">> \o s \o <<"</settings>">> :
            s \in {<<"a", " ">>, <<"1">>, <<"null">>, <<"{", "}">>, <<"a", "<critique>">>}}
    \cup {<<"<text>", "a", "<settings>", "b", "</text>", "c", "</settings>">>}

DrawnCrits == StrsUpTo(CritChars, MaxLen)

\* File contents with the three sections in place: the settings section holds
\* the summary text of the older format, a broken object, a value that is not
\* an object, or an object.
FrameTexts == {<<"a">>, <<" ", "a">>}
FrameSettings ==
  {<<"a", " ">>, <<"\n", "a", "a">>, <<"{", "a">>, <<"{", "summary", ":", "a", "}">>,
   <<"\"", "a">>, <<"1">>, <<"null">>, <<"{", "}">>,
   <<"{", "style", ":", "\"", "a", "\"", "}">>}
FrameCrits == {<<>>, <<"b", "\n">>}
Framed(t, st, c) ==
  <<"<text>">> \o t \o <<"</text>", "\n", "<settings>">> \o st
    \o <<"</settings>", "\n", "<critique>">> \o c \o <<"</critique>">>
FramedRaws ==
  {Framed(t, st, c) : t \in FrameTexts, st \in FrameSettings, c \in FrameCrits}

TagInit ==
  /\ tPc = "start"
  /\ tOut = <<>>
  /\ tParsed = EmptyDoc
  /\ \/ tDoc \in DrawnDocs /\ tRaw = <<>> /\ tCrit = <<>>
     \/ tDoc = EmptyDoc /\ tRaw \in DrawnRaws /\ tCrit \in DrawnCrits
     \/ tDoc = EmptyDoc /\ tRaw \in FramedRaws /\ tCrit = <<>>

\* handleSave on tDoc.
TagSave ==
  /\ tPc = "start"
  /\ tRaw = <<>> /\ tCrit = <<>>
  /\ tOut' = fileData(tDoc)
  /\ tPc' = "saved"
  /\ UNCHANGED <<tDoc, tRaw, tCrit, tParsed>>
  /\ UNCHANGED <<avars, gvars, qvars, focusVars, wvars, ovars>>

\* The file is opened again: a new ChapterCard parses what was saved.
TagReload ==
  /\ tPc = "saved"
  /\ tParsed' = Parse(tOut)
  /\ tPc' = "reloaded"
  /\ UNCHANGED <<tDoc, tRaw, tCrit, tOut>>
  /\ UNCHANGED <<avars, gvars, qvars, focusVars, wvars, ovars>>

\* A ChapterCard is mounted on the file content tRaw.
TagParse ==
  /\ tPc = "start"
  /\ tDoc = EmptyDoc
  /\ tParsed' = Parse(tRaw)
  /\ tPc' = "parsed"
  /\ UNCHANGED <<tDoc, tRaw, tCrit, tOut>>
  /\ UNCHANGED <<avars, gvars, qvars, focusVars, wvars, ovars>>

\* handleCritiqueReceived on the file content tRaw.
TagInject ==
  /\ tPc = "start"
  /\ tDoc = EmptyDoc
  /\ tOut' = newContent(tRaw, tCrit)
  /\ tPc' = "injected"
  /\ UNCHANGED <<tDoc, tRaw, tCrit, tParsed>>
  /\ UNCHANGED <<avars, gvars, qvars, focusVars, wvars, ovars>>

\* The ChapterCard parses the injected content.
TagReparse ==
  /\ tPc = "injected"
  /\ tParsed' = Parse(tOut)
  /\ tPc' = "reinjected"
  /\ UNCHANGED <<tDoc, tRaw, tCrit, tOut>>
  /\ UNCHANGED <<avars, gvars, qvars, focusVars, wvars, ovars>>

TagNext == TagSave \/ TagReload \/ TagParse \/ TagInject \/ TagReparse


\* ------------------------------------------------ the provider gateway
Projects == {"A", "B"}
Providers == {"openai", "google", "xai"}
EnvKeys == {"OPENAI_API_KEY", "GOOGLE_GENERATIVE_AI_API_KEY", "XAI_API_KEY"}

\* The default of googleModel in both completion handlers.
DefaultGoogleModel == <<"models/", "gemini-1.5-flash">>

\* A folder without auctor.json, and one without .env.
NoAuctor == [ok |-> FALSE, aiProvider |-> "", googleModel |-> <<>>]
NoEnv == [ok |-> FALSE, OPENAI_API_KEY |-> "", GOOGLE_GENERATIVE_AI_API_KEY |-> "",
          XAI_API_KEY |-> ""]

\* a || b on strings: the empty string is falsy.
Or(a, b) == IF a # "" THEN a ELSE b

\* The inner try block of a completion handler: auctor.json is read first, then
\* .env; what was assigned before a read fails stays assigned.
ReadConfig(a, e) ==
  LET none == [provider |-> "openai", googleModel |-> DefaultGoogleModel,
               apiKey |-> "", googleApiKey |-> "", xaiApiKey |-> ""]
  IN  IF ~a.ok THEN none
      ELSE LET c == [none EXCEPT
                       !.provider = Or(a.aiProvider, "openai"),
                       !.googleModel = IF a.googleModel # <<>>
                                       THEN a.googleModel ELSE DefaultGoogleModel]
           IN  IF ~e.ok THEN c
               ELSE [c EXCEPT !.apiKey = e.OPENAI_API_KEY,
                              !.googleApiKey = e.GOOGLE_GENERATIVE_AI_API_KEY,
                              !.xaiApiKey = e.XAI_API_KEY]

\* The provider switch of 'generate-ai-completion': the SDK, its base URL (empty
\* for the SDK's own), the model and the key handed to the SDK.
ChatModel(c, penv) ==
  CASE c.provider = "google" ->
         [sdk |-> "google", baseURL |-> "",
          model |-> IF c.googleModel # <<>> /\ Head(c.googleModel) = "models/"
                    THEN c.googleModel ELSE <<"models/">> \o c.googleModel,
          apiKey |-> Or(c.googleApiKey, penv.GOOGLE_GENERATIVE_AI_API_KEY)]
    [] c.provider = "xai" ->
         [sdk |-> "openai", baseURL |-> "https://api.x.ai/v1",
          model |-> <<"grok-beta">>,
          apiKey |-> Or(c.xaiApiKey, penv.XAI_API_KEY)]
    [] OTHER ->
         [sdk |-> "openai", baseURL |-> "", model |-> <<"gpt-4-turbo">>,
          apiKey |-> Or(c.apiKey, penv.OPENAI_API_KEY)]

\* A provider switch that would put the prefix before every googleModel.
RewriteModelAlwaysPrefixed(c, penv) ==
  CASE c.provider = "google" ->
         [sdk |-> "google", baseURL |-> "",
          model |-> <<"models/">> \o c.googleModel,
          apiKey |-> Or(c.googleApiKey, penv.GOOGLE_GENERATIVE_AI_API_KEY)]
    [] c.provider = "xai" ->
         [sdk |-> "openai", baseURL |-> "https://api.x.ai/v1",
          model |-> <<"grok-beta">>,
          apiKey |-> Or(c.xaiApiKey, penv.XAI_API_KEY)]
    [] OTHER ->
         [sdk |-> "openai", baseURL |-> "", model |-> <<"gpt-4-turbo">>,
          apiKey |-> Or(c.apiKey, penv.OPENAI_API_KEY)]

\* The provider switch of 'rewrite-text-completion'.
RewriteModel(c, penv) ==
  CASE c.provider = "google" ->
         [sdk |-> "google", baseURL |-> "",
          model |-> IF c.googleModel # <<>> /\ Head(c.googleModel) = "models/"
                    THEN c.googleModel ELSE <<"models/">> \o c.googleModel,
          apiKey |-> Or(c.googleApiKey, penv.GOOGLE_GENERATIVE_AI_API_KEY)]
    [] c.provider = "xai" ->
         [sdk |-> "openai", baseURL |-> "https://api.x.ai/v1",
          model |-> <<"grok-beta">>,
          apiKey |-> Or(c.xaiApiKey, penv.XAI_API_KEY)]
    [] OTHER ->
         [sdk |-> "openai", baseURL |-> "", model |-> <<"gpt-4-turbo">>,
          apiKey |-> Or(c.apiKey, penv.OPENAI_API_KEY)]

\* streamText with the handle: neither handler looks at the key, the call is
\* made with whatever key the handle got.  Without any key the SDK refuses to
\* build the request and the catch block reports its error.
Outcome(handle) == IF handle.apiKey = "" THEN "error" ELSE "requested"

NoRequest ==
  [chan |-> "", config |-> ReadConfig(NoAuctor, NoEnv),
   handle |-> [sdk |-> "", baseURL |-> "", model |-> <<>>, apiKey |-> ""],
   outcome |-> ""]

\* ipcMain.on('generate-ai-completion'), up to the call of streamText.
GenerateAiCompletion ==
  LET c == ReadConfig(auctorJson[projectRoot], envFile[projectRoot])
      h == ChatModel(c, processEnv)
  IN  /\ lastRequest' = [chan |-> "chat", config |-> c, handle |-> h,
                         outcome |-> Outcome(h)]
      /\ UNCHANGED <<projectRoot, auctorJson, envFile, processEnv>>
      /\ UNCHANGED <<tvars, avars, qvars, focusVars, wvars, ovars>>

\* ipcMain.on('rewrite-text-completion'), up to the call of streamText.
RewriteTextCompletion ==
  LET c == ReadConfig(auctorJson[projectRoot], envFile[projectRoot])
      h == RewriteModel(c, processEnv)
  IN  /\ lastRequest' = [chan |-> "rewrite", config |-> c, handle |-> h,
                         outcome |-> Outcome(h)]
      /\ UNCHANGED <<projectRoot, auctorJson, envFile, processEnv>>
      /\ UNCHANGED <<tvars, avars, qvars, focusVars, wvars, ovars>>

\* The settings the SettingsModal hands to 'save-project-settings'.
ModelNames == {<<"models/", "gemini-pro">>, <<"gemini-pro">>}
KeySets ==
  {[OPENAI_API_KEY |-> "", GOOGLE_GENERATIVE_AI_API_KEY |-> "", XAI_API_KEY |-> ""],
   [OPENAI_API_KEY |-> "sk-1", GOOGLE_GENERATIVE_AI_API_KEY |-> "g-1",
    XAI_API_KEY |-> ""],
   [OPENAI_API_KEY |-> "", GOOGLE_GENERATIVE_AI_API_KEY |-> "g-2",
    XAI_API_KEY |-> "x-2"]}
NewSettings == [aiProvider : Providers, googleModel : ModelNames, keys : KeySets]

\* ipcMain.handle('save-project-settings'): auctor.json is read and written
\* back with a settings object of the five new members (the others, such as
\* chapterOrder, are not carried over), the key lines of .env are replaced or
\* added, and process.env is set.  When auctor.json cannot be read nothing is
\* written.
SaveProjectSettings(n) ==
  /\ auctorJson[projectRoot].ok
  /\ auctorJson' = [auctorJson EXCEPT ![projectRoot] =
                      [ok |-> TRUE, aiProvider |-> n.aiProvider,
                       googleModel |-> n.googleModel]]
  /\ envFile' = [envFile EXCEPT ![projectRoot] =
                   [ok |-> TRUE, OPENAI_API_KEY |-> n.keys.OPENAI_API_KEY,
                    GOOGLE_GENERATIVE_AI_API_KEY |->
                      n.keys.GOOGLE_GENERATIVE_AI_API_KEY,
                    XAI_API_KEY |-> n.keys.XAI_API_KEY]]
  /\ processEnv' = n.keys
  /\ chapterOrder' = [chapterOrder EXCEPT ![projectRoot] = <<>>]
  /\ oOp' = "save-project-settings"
  /\ oArg' = <<>>
  /\ UNCHANGED <<projectRoot, lastRequest>>
  /\ UNCHANGED <<chaptersDir, oOrder, pdf>>
  /\ UNCHANGED <<tvars, avars, qvars, focusVars, wvars>>

\* ipcMain.handle('create-project'): a new folder with an auctor.json that names
\* no provider and an empty chapterOrder, and an .env with an empty OpenAI key;
\* it becomes the open project.
CreateProject(p) ==
  /\ ~auctorJson[p].ok /\ ~envFile[p].ok
  /\ auctorJson' = [auctorJson EXCEPT ![p] =
                      [ok |-> TRUE, aiProvider |-> "", googleModel |-> <<>>]]
  /\ envFile' = [envFile EXCEPT ![p] = [NoEnv EXCEPT !.ok = TRUE]]
  /\ projectRoot' = p
  /\ chapterOrder' = [chapterOrder EXCEPT ![p] = <<>>]
  /\ UNCHANGED <<processEnv, lastRequest>>
  /\ UNCHANGED <<chaptersDir, oOp, oArg, oOrder, pdf>>
  /\ UNCHANGED <<tvars, avars, qvars, focusVars, wvars>>

\* loadProject: another folder becomes the open project.
LoadProject(p) ==
  /\ p # projectRoot
  /\ projectRoot' = p
  /\ UNCHANGED <<auctorJson, envFile, processEnv, lastRequest>>
  /\ UNCHANGED <<tvars, avars, qvars, focusVars, wvars, ovars>>

\* The application starts on project A, whose files hold any settings a save
\* can have written; folder B can be a project without .env or no project yet.
GatewayInit ==
  /\ projectRoot = "A"
  /\ \E n \in NewSettings :
       /\ auctorJson \in
            [Projects ->
               {NoAuctor, [ok |-> TRUE, aiProvider |-> "", googleModel |-> <<>>]}]
              \cup {[q \in Projects |->
                       IF q = "A"
                       THEN [ok |-> TRUE, aiProvider |-> n.aiProvider,
                             googleModel |-> n.googleModel]
                       ELSE NoAuctor]}
       /\ envFile \in
            {[q \in Projects |-> NoEnv],
             [q \in Projects |->
                IF q = "A"
                THEN [ok |-> TRUE, OPENAI_API_KEY |-> n.keys.OPENAI_API_KEY,
                      GOOGLE_GENERATIVE_AI_API_KEY |->
                        n.keys.GOOGLE_GENERATIVE_AI_API_KEY,
                      XAI_API_KEY |-> n.keys.XAI_API_KEY]
                ELSE NoEnv]}
  /\ processEnv = [k \in EnvKeys |-> ""]
  /\ lastRequest = NoRequest

\* The gateway at rest while the other parts run.
GatewayIdle ==
  /\ projectRoot = "A"
  /\ auctorJson = [q \in Projects |-> NoAuctor]
  /\ envFile = [q \in Projects |-> NoEnv]
  /\ processEnv = [k \in EnvKeys |-> ""]
  /\ lastRequest = NoRequest

GatewayNext ==
  \/ GenerateAiCompletion
  \/ RewriteTextCompletion
  \/ \E n \in NewSettings : SaveProjectSettings(n)
  \/ \E p \in Projects : CreateProject(p)
  \/ \E p \in Projects : LoadProject(p)


\* ------------------------------------------------- the critique prompt
\* ipcMain.handle('get-project-settings'): the appearance and provider settings
\* of auctor.json and the keys of .env.  The members the result does not have
\* are absent from the record.
GetProjectSettings(a) ==
  IF ~a.ok THEN [success |-> FALSE]
  ELSE [success |-> TRUE,
        settings |-> [theme |-> <<"dark">>, fontFamily |-> <<"sans-serif">>,
                      fontSize |-> <<"16">>, aiProvider |-> <<"openai">>,
                      googleModel |-> <<"models/", "gemini-2.0-flash-exp">>,
                      apiKey |-> <<>>, googleApiKey |-> <<>>,
                      xaiApiKey |-> <<>>]]

\* obj.key of an object: undefined (here empty) when it has no such member.
Field(obj, key) == IF key \in DOMAIN obj THEN obj[key] ELSE <<>>

\* handleCritique, the project part: title and author on one line, then the plot.
PlotContext(settingsResult) ==
  IF ~settingsResult.success THEN <<>>
  ELSE LET title == Field(settingsResult.settings, "title")
           author == Field(settingsResult.settings, "author")
           plot == Field(settingsResult.settings, "plot")
           header == (IF title # <<>> THEN <<"Novel: ">> \o title ELSE <<>>)
                       \o (IF author # <<>> THEN <<" by ">> \o author ELSE <<>>)
       IN  (IF header # <<>> THEN header \o <<"\n">> ELSE <<>>)
             \o (IF plot # <<>> THEN <<"Plot: ">> \o plot \o <<"\n">> ELSE <<>>)

\* handleCritique, the chapter part: the settings section of contextContent.
ChapterSettingsContext(contextContent) ==
  LET settingsMatch == Match(contextContent, "<settings>", "</settings>")
      p == JsonParse(Trim(settingsMatch.inner))
  IN  IF ~settingsMatch.found \/ ~p.ok \/ p.kind # "object" THEN <<>>
      ELSE LET summary == Member(p.obj, "summary")
               ageOffset == Member(p.obj, "ageOffset")
               style == Member(p.obj, "style")
           IN  (IF summary # <<>>
                THEN <<"Chapter Summary: ">> \o summary \o <<"\n">> ELSE <<>>)
                 \o (IF ageOffset # <<>> /\ ageOffset # <<"0">>
                     THEN <<"Age Offset: ">> \o ageOffset \o <<" years", "\n">>
                     ELSE <<>>)
                 \o (IF style # <<>>
                     THEN <<"Writing Style Notes: ">> \o style \o <<"\n">>
                     ELSE <<>>)

\* x || 'N/A'
OrNA(x) == IF x # <<>> THEN x ELSE <<"N/A">>

\* handleCritique, the entity part, for a project whose only entity file is
\* Characters/hero.json.  e: whether the file is there, whether JSON.parse
\* accepts it, and the members of the object and of its first life stage.
EntityContext(e) ==
  IF ~e.exists \/ ~e.json THEN <<>>
  ELSE LET name == IF e.name # <<>> THEN e.name ELSE <<"hero">>
           akaStr == IF e.aka # <<>> THEN <<" (aka ">> \o e.aka \o <<")">> ELSE <<>>
       IN  <<"[Character: ">> \o name \o akaStr
             \o <<". Appearance: ">> \o OrNA(e.appearance)
             \o <<". Personality: ">> \o OrNA(e.personality)
             \o <<". Motivation: ">> \o OrNA(e.motivation) \o <<"]">>

\* sections.join('\n\n')
RECURSIVE JoinSections(_)
JoinSections(sections) ==
  IF sections = <<>> THEN <<>>
  ELSE IF Len(sections) = 1 THEN Head(sections)
  ELSE Head(sections) \o <<"\n", "\n">> \o JoinSections(Tail(sections))

Rubric ==
  <<"Critique the following writing sample. Focus on pacing, tone, character voice, and consistency with the established world and plot.">>

\* handleCritique: the prompt it sends.
CritiquePrompt(settingsResult, contextContent, e) ==
  LET plotContext == PlotContext(settingsResult)
      chapterSettingsContext == ChapterSettingsContext(contextContent)
      entityContext == EntityContext(e)
      textMatch == Match(contextContent, "<text>", "</text>")
      chapterText == IF textMatch.found THEN Trim(textMatch.inner)
                     ELSE contextContent
      sections ==
        (IF plotContext # <<>>
         THEN << <<"Project Overview:", "\n">> \o plotContext >> ELSE <<>>)
          \o (IF chapterSettingsContext # <<>>
              THEN << <<"Chapter Context:", "\n">> \o chapterSettingsContext >>
              ELSE <<>>)
          \o (IF entityContext # <<>>
              THEN << <<"Characters, Places & Objects:", "\n">> \o entityContext >>
              ELSE <<>>)
  IN  Rubric \o <<"\n", "\n">> \o JoinSections(sections)
        \o <<"\n", "\n", "---", "\n">> \o chapterText \o <<"\n", "---">>

\* The projects, chapters and character files the prompt is built for.
DrawnProjects ==
  [ok : BOOLEAN, overview : {<<>>, <<"plot">>}]
DrawnChapters ==
  {fileData(d) :
     d \in [text : {<<"a">>, <<"a", " ">>}, summary : StrsUpTo({"s"}, MaxSetLen),
            ageOffset : {<<>>, <<"0">>, <<"1">>}, style : StrsUpTo({"n"}, MaxSetLen),
            critique : {<<>>, <<"k">>}]}
    \cup {<<"a">>, <<"<text>", "a", "</text>", "<settings>", "s", "</settings>">>}
DrawnEntities ==
  [exists : BOOLEAN, json : BOOLEAN, name : {<<>>, <<"Ann">>}, aka : {<<>>},
   appearance : {<<>>, <<"tall">>}, personality : {<<>>}, motivation : {<<>>}]

PromptInit ==
  /\ qPc = "start"
  /\ qProject \in DrawnProjects
  /\ qContent \in DrawnChapters
  /\ qEntity \in DrawnEntities
  /\ qPrompt = <<>>

PromptIdle ==
  /\ qPc = "start"
  /\ qProject = [ok |-> FALSE, overview |-> <<>>]
  /\ qContent = <<>>
  /\ qEntity = [exists |-> FALSE, json |-> FALSE, name |-> <<>>, aka |-> <<>>,
                appearance |-> <<>>, personality |-> <<>>, motivation |-> <<>>]
  /\ qPrompt = <<>>

\* handleCritique on the open chapter qContent.
BuildPrompt ==
  /\ qPc = "start"
  /\ qContent # <<>>
  /\ qPrompt' = CritiquePrompt(GetProjectSettings(qProject), qContent, qEntity)
  /\ qPc' = "built"
  /\ UNCHANGED <<qProject, qContent, qEntity>>
  /\ UNCHANGED <<tvars, avars, gvars, focusVars, wvars, ovars>>


Files == {"Chapters/c1.md", "Chapters/c2.md"}
NoFile == [name |-> "", content |-> <<>>]

\* The k-th text part of session s, and the message of its failure.
ChunkNames ==
  << <<"p11", "p12", "p13", "p14">>, <<"p21", "p22", "p23", "p24">>,
     <<"p31", "p32", "p33", "p34">>, <<"p41", "p42", "p43", "p44">> >>
ChunkTok(s, k) == ChunkNames[s][k]
ErrorNames == <<"boom1", "boom2", "boom3", "boom4">>
ErrorTok(s) == ErrorNames[s]

Channel(chan, kind) ==
  IF chan = "rewrite"
  THEN (CASE kind = "start" -> "rewrite-text-start"
          [] kind = "chunk" -> "rewrite-text-chunk"
          [] kind = "end" -> "rewrite-text-end"
          [] OTHER -> "rewrite-text-error")
  ELSE (CASE kind = "chunk" -> "ai-completion-chunk"
          [] kind = "end" -> "ai-completion-end"
          [] OTHER -> "ai-completion-error")

\* event.sender.send(channel, arg) by the handler run s.  The renderer sees
\* only the order of the events, so the handler may as well wait for room.
Send(s, kind, arg) ==
  /\ Len(inbox) < MaxInbox
  /\ inbox' = Append(inbox, [type |-> Channel(sess[s].chan, kind), s |-> s,
                             arg |-> arg])
  /\ sess' = [sess EXCEPT ![s].out = Append(@, kind),
                          ![s].k = IF kind = "chunk" THEN @ + 1 ELSE @,
                          ![s].pc = IF kind \in {"start", "chunk"}
                                    THEN "stream" ELSE "done"]

\* The handler starts: the request leaves the queue to the main process, in the
\* order sent.  'rewrite-text-completion' sends 'rewrite-text-start' first.
HandlerStart(s) ==
  /\ sess[s].pc = "sent"
  /\ \A r \in 1..(s - 1) : sess[r].pc # "sent"
  /\ IF sess[s].chan = "rewrite"
     THEN Send(s, "start", "")
     ELSE /\ sess' = [sess EXCEPT ![s].pc = "stream"]
          /\ UNCHANGED inbox
  /\ UNCHANGED <<idle, appVars, cardVars, panelVars, closure, lastOp, steps>>

\* for await (const textPart of result.textStream) send(chunk)
StreamChunk(s) ==
  /\ sess[s].pc = "stream"
  /\ sess[s].k < MaxChunks
  /\ Send(s, "chunk", ChunkTok(s, sess[s].k + 1))
  /\ UNCHANGED <<idle, appVars, cardVars, panelVars, closure, lastOp, steps>>

\* The stream is exhausted: send(end).
StreamEnd(s) ==
  /\ sess[s].pc = "stream"
  /\ Send(s, "end", "")
  /\ UNCHANGED <<idle, appVars, cardVars, panelVars, closure, lastOp, steps>>

\* A catch block that would send the error and let the loop go on.
StreamFailAndGoOn(s) ==
  /\ sess[s].pc = "stream"
  /\ Len(inbox) < MaxInbox
  /\ inbox' = Append(inbox, [type |-> Channel(sess[s].chan, "error"), s |-> s,
                             arg |-> ErrorTok(s)])
  /\ sess' = [sess EXCEPT ![s].out = Append(@, "error")]
  /\ UNCHANGED <<idle, appVars, cardVars, panelVars, closure, lastOp, steps>>

\* An exception before the stream (building the model, streamText) or while
\* iterating it: the catch block sends the error.
StreamFail(s) ==
  /\ sess[s].pc = "stream"
  /\ Send(s, "error", ErrorTok(s))
  /\ UNCHANGED <<idle, appVars, cardVars, panelVars, closure, lastOp, steps>>

\* ------------------------------------------------------- the editor
\* editor.getHTML() and the parse of setContent: one paragraph around the text.
GetHTML(doc) == <<"<p>">> \o doc \o <<"</p>">>
ParseHTML(html) == SelectSeq(html, LAMBDA t : t \notin {"<p>", "</p>"})

\* insertContent(x): x replaces the selection and the cursor follows it;
\* deleteSelection is the insertion of nothing.
InsertDoc(doc, sel, x) ==
  SubSeq(doc, 1, sel[1]) \o x \o SubSeq(doc, sel[2] + 1, Len(doc))
InsertSel(sel, x) == <<sel[1] + Len(x), sel[1] + Len(x)>>

\* doc.textBetween(from, to)
TextBetween(doc, from, to) == SubSeq(doc, from + 1, to)

ErrorMarker(error) == <<"[Rewrite Error:", error, "]">>

\* A ChapterCard mounted on a file content: the parse effect on the initial
\* state, then the sync effect that loads the text into the editor.
Mount(content) ==
  LET d == Parse(content) IN
  [d |-> d, activeTab |-> "text", doc |-> ParseHTML(d.text), sel |-> <<0, 0>>,
   isRewritingRef |-> FALSE, pending |-> <<>>,
   base |-> <<>>, at |-> 0, ins |-> <<>>, touched |-> FALSE]

\* The sync effect: it runs when textContent or activeTab has changed.
SyncEditor(c) ==
  IF c.activeTab = "text" /\ GetHTML(c.doc) # c.d.text
  THEN [c EXCEPT !.doc = ParseHTML(c.d.text), !.sel = <<0, 0>>, !.touched = TRUE]
  ELSE c

\* The content prop of the mounted ChapterCard changes: the parse effect runs
\* on the current state, and the sync effect when textContent changed.
ContentChanged(c, content) ==
  LET d == InitialParse(c.d, content)
      c1 == [c EXCEPT !.d = d]
  IN  IF d.text # c.d.text THEN SyncEditor(c1) ELSE c1

\* setActiveFile(new) seen by the ChapterCard: its key is the file name.
CardAfter(c, old, new) ==
  IF new.name # old.name THEN Mount(new.content)
  ELSE IF new.content # old.content THEN ContentChanged(c, new.content)
  ELSE c

\* The instance is replaced: a runRewrite waiting in the old one goes on by
\* itself, and no session belongs to the instance mounted now.
OrphanAfter(c, old, new) ==
  IF new.name # old.name THEN orphan + Len(c.pending) ELSE orphan
SessAfter(old, new) ==
  IF new.name # old.name
  THEN [i \in 1..Len(sess) |-> [sess[i] EXCEPT !.own = FALSE]]
  ELSE sess

Mounted == activeFile.name # ""

\* What lastOp holds after a user action, and the event after a listener ran.
UserOp(t) == [type |-> t, s |-> 0, arg |-> ""]

\* The listeners of the panel are those of the current render.
Rendered ==
  closure = [streamingContent |-> streamingContent, activeFile |-> activeFile]

\* ------------------------------------------------------ user actions
\* The ranges the user selects in a document of n characters.
SelRanges(n) == {r \in {<<0, 1>>, <<1, n>>, <<n, n>>} : r[1] <= r[2] /\ r[2] <= n}

\* handleFileSelect: read-file, then setActiveFile.
SelectFile(f) ==
  LET new == [name |-> f, content |-> disk[f]] IN
  /\ Rendered
  /\ new # activeFile
  /\ activeFile' = new
  /\ card' = CardAfter(card, activeFile, new)
  /\ orphan' = OrphanAfter(card, activeFile, new)
  /\ sess' = SessAfter(activeFile, new)
  /\ lastOp' = UserOp("user")
  /\ steps' = steps + 1
  /\ UNCHANGED <<idle, inbox, disk, panelVars, closure>>

\* The user moves the cursor or selects a range in the editor.
UserSelect(r) ==
  /\ Rendered /\ Mounted
  /\ card.activeTab = "text"
  /\ r \in SelRanges(Len(card.doc))
  /\ r # card.sel
  /\ card' = [card EXCEPT !.sel = r, !.touched = TRUE]
  /\ lastOp' = UserOp("user")
  /\ steps' = steps + 1
  /\ UNCHANGED <<idle, mainVars, appVars, orphan, panelVars, closure>>

\* The user types a character: the editor's onUpdate stores the HTML.
UserType ==
  /\ Rendered /\ Mounted
  /\ card.activeTab = "text"
  /\ LET doc == InsertDoc(card.doc, card.sel, <<"z">>) IN
     card' = [card EXCEPT !.doc = doc, !.sel = InsertSel(card.sel, <<"z">>),
                          !.d.text = GetHTML(doc), !.touched = TRUE]
  /\ lastOp' = UserOp("user")
  /\ steps' = steps + 1
  /\ UNCHANGED <<idle, mainVars, appVars, orphan, panelVars, closure>>

\* The user clicks a tab of the chapter; the sync effect runs.
UserTab(t) ==
  /\ Rendered /\ Mounted
  /\ t # card.activeTab
  /\ card' = SyncEditor([card EXCEPT !.activeTab = t])
  /\ lastOp' = UserOp("user")
  /\ steps' = steps + 1
  /\ UNCHANGED <<idle, mainVars, appVars, orphan, panelVars, closure>>

\* handleSave, then App's handleSaveFile: save-file and setActiveFile.
HandleSave ==
  LET new == [activeFile EXCEPT !.content = fileData(card.d)] IN
  /\ Rendered /\ Mounted
  /\ disk' = [disk EXCEPT ![activeFile.name] = new.content]
  /\ activeFile' = new
  /\ card' = CardAfter(card, activeFile, new)
  /\ lastOp' = UserOp("user")
  /\ steps' = steps + 1
  /\ UNCHANGED <<idle, mainVars, orphan, panelVars, closure>>

\* --------------------------------------- listeners of the ChapterCard
\* A runRewrite without the check of an empty selection.
runRewriteAnySelection(c, type) ==
  IF c.isRewritingRef THEN c
  ELSE [c EXCEPT !.isRewritingRef = TRUE,
                 !.pending = Append(@, [mode |-> type,
                                        selectedText |->
                                          TextBetween(c.doc, c.sel[1], c.sel[2])])]

\* runRewrite up to its await of fetchProjectContext.
runRewrite(c, type) ==
  IF c.isRewritingRef THEN c
  ELSE IF c.sel[1] = c.sel[2] THEN c
  ELSE [c EXCEPT !.isRewritingRef = TRUE,
                 !.pending = Append(@, [mode |-> type,
                                        selectedText |->
                                          TextBetween(c.doc, c.sel[1], c.sel[2])])]

TriggerTypes == {"rewrite-selection", "make-shorter-selection", "make-longer-selection"}

\* A click on an item of the AI menu: the main process sends the event and the
\* listener of the mounted ChapterCard runs runRewrite.  (The event is taken
\* with its listener: a click made earlier and handled now is a click made now.)
MenuRewrite(type) ==
  /\ Rendered
  /\ type \in TriggerTypes
  /\ lastOp' = [type |-> "trigger", s |-> 0, arg |-> ""]
  /\ card' = IF Mounted THEN runRewrite(card, type) ELSE card
  /\ UNCHANGED <<idle, mainVars, appVars, orphan, panelVars, closure, steps>>

\* A new request on 'rewrite-text-completion'; own: the instance mounted now
\* sent it.
NewRewrite(own) ==
  [chan |-> "rewrite", pc |-> "sent", k |-> 0, out |-> <<>>, crit |-> FALSE,
   own |-> own, file |-> ""]

\* A runRewrite that would stop when the context cannot be gathered.
RewriteDispatchAbort(ctxOk) ==
  /\ Mounted
  /\ card.pending # <<>>
  /\ Len(sess) < MaxSessions
  /\ IF ctxOk
     THEN /\ LET doc == InsertDoc(card.doc, card.sel, <<>>) IN
             card' = [card EXCEPT !.pending = Tail(@), !.doc = doc,
                                  !.sel = InsertSel(card.sel, <<>>),
                                  !.d.text = IF doc # card.doc THEN GetHTML(doc) ELSE @,
                                  !.base = doc, !.at = card.sel[1], !.ins = <<>>,
                                  !.touched = FALSE]
          /\ sess' = Append(sess, [chan |-> "rewrite", pc |-> "sent", k |-> 0,
                                   out |-> <<>>, crit |-> FALSE, own |-> TRUE,
                                   file |-> ""])
     ELSE /\ card' = [card EXCEPT !.pending = Tail(@)]
          /\ UNCHANGED sess
  /\ lastOp' = UserOp("rewrite-dispatch")
  /\ UNCHANGED <<idle, inbox, appVars, orphan, panelVars, closure, steps>>

\* runRewrite after the await: the context is built (a file that cannot be read
\* or listed only shortens it), the selection deleted, the request sent.
RewriteDispatch(ctxOk) ==
  /\ Mounted
  /\ card.pending # <<>>
  /\ Len(sess) < MaxSessions
  /\ LET doc == InsertDoc(card.doc, card.sel, <<>>) IN
     card' = [card EXCEPT !.pending = Tail(@), !.doc = doc,
                          !.sel = InsertSel(card.sel, <<>>),
                          !.d.text = IF doc # card.doc THEN GetHTML(doc) ELSE @,
                          !.base = doc, !.at = card.sel[1], !.ins = <<>>,
                          !.touched = FALSE]
  /\ sess' = Append(sess, NewRewrite(TRUE))
  /\ lastOp' = UserOp("rewrite-dispatch")
  /\ UNCHANGED <<idle, inbox, appVars, orphan, panelVars, closure, steps>>

\* The runRewrite of an unmounted instance resumes on its destroyed editor:
\* the command chain either throws or does nothing, and then the request is sent.
OrphanDispatch(sends) ==
  /\ orphan > 0
  /\ orphan' = orphan - 1
  /\ IF sends /\ Len(sess) < MaxSessions
     THEN sess' = Append(sess, NewRewrite(FALSE))
     ELSE UNCHANGED sess
  /\ UNCHANGED <<idle, inbox, appVars, card, panelVars, closure, lastOp, steps>>

\* The 'rewrite-text-chunk' listener.
OnRewriteChunk(c, chunk) ==
  IF ~c.isRewritingRef THEN c
  ELSE LET doc == InsertDoc(c.doc, c.sel, <<chunk>>) IN
       [c EXCEPT !.doc = doc, !.sel = InsertSel(c.sel, <<chunk>>),
                 !.d.text = GetHTML(doc), !.ins = Append(@, chunk)]

\* The 'rewrite-text-end' listener.
OnRewriteEnd(c) == [c EXCEPT !.isRewritingRef = FALSE]

\* An error listener that would write the marker without the message.
OnRewriteErrorNoMessage(c, error) ==
  LET doc == InsertDoc(c.doc, c.sel, ErrorMarker("")) IN
  [c EXCEPT !.isRewritingRef = FALSE, !.doc = doc,
            !.sel = InsertSel(c.sel, ErrorMarker("")), !.d.text = GetHTML(doc),
            !.ins = @ \o ErrorMarker("")]

\* The 'rewrite-text-error' listener.
OnRewriteError(c, error) ==
  LET doc == InsertDoc(c.doc, c.sel, ErrorMarker(error)) IN
  [c EXCEPT !.isRewritingRef = FALSE, !.doc = doc,
            !.sel = InsertSel(c.sel, ErrorMarker(error)), !.d.text = GetHTML(doc),
            !.ins = @ \o ErrorMarker(error)]

\* Listeners that would count down without the floor of Math.max.
ThinkingEndedNoFloor(n) == n - 1

\* The panel's 'rewrite-text-end' and 'rewrite-text-error' listeners.
ThinkingEnded(n) == IF n - 1 > 0 THEN n - 1 ELSE 0

HandleRewriteStart ==
  /\ inbox # <<>> /\ Head(inbox).type = "rewrite-text-start"
  /\ inbox' = Tail(inbox)
  /\ lastOp' = Head(inbox)
  /\ externalThinkingCount' =
       IF focusMode THEN externalThinkingCount ELSE externalThinkingCount + 1
  /\ UNCHANGED <<idle, sess, appVars, cardVars, isLoading, streamingContent,
                 messages, aiMode, critiquePc, closure, steps>>

HandleRewriteChunk ==
  /\ inbox # <<>> /\ Head(inbox).type = "rewrite-text-chunk"
  /\ inbox' = Tail(inbox)
  /\ lastOp' = Head(inbox)
  /\ card' = IF Mounted THEN OnRewriteChunk(card, Head(inbox).arg) ELSE card
  /\ UNCHANGED <<idle, sess, appVars, orphan, panelVars, closure, steps>>

HandleRewriteEnd ==
  /\ inbox # <<>> /\ Head(inbox).type = "rewrite-text-end"
  /\ inbox' = Tail(inbox)
  /\ lastOp' = Head(inbox)
  /\ card' = IF Mounted THEN OnRewriteEnd(card) ELSE card
  /\ externalThinkingCount' =
       IF focusMode THEN externalThinkingCount
       ELSE ThinkingEnded(externalThinkingCount)
  /\ UNCHANGED <<idle, sess, appVars, orphan, isLoading, streamingContent,
                 messages, aiMode, critiquePc, closure, steps>>

HandleRewriteError ==
  /\ inbox # <<>> /\ Head(inbox).type = "rewrite-text-error"
  /\ inbox' = Tail(inbox)
  /\ lastOp' = Head(inbox)
  /\ card' = IF Mounted THEN OnRewriteError(card, Head(inbox).arg) ELSE card
  /\ externalThinkingCount' =
       IF focusMode THEN externalThinkingCount
       ELSE ThinkingEnded(externalThinkingCount)
  /\ UNCHANGED <<idle, sess, appVars, orphan, isLoading, streamingContent,
                 messages, aiMode, critiquePc, closure, steps>>

\* ---------------------------------------------------- the chat panel
NewChat(crit) ==
  [chan |-> "chat", pc |-> "sent", k |-> 0, out |-> <<>>, crit |-> crit,
   own |-> FALSE, file |-> activeFile.name]

Msg(role, content) == [role |-> role, content |-> content]

\* A sendMessage that would not look at isLoading.
SendMessageUnguarded ==
  /\ Rendered /\ ~focusMode
  /\ Len(sess) < MaxSessions
  /\ messages' = Append(messages, Msg("user", <<"hi">>))
  /\ isLoading' = TRUE
  /\ streamingContent' = <<>>
  /\ sess' = Append(sess, NewChat(FALSE))
  /\ lastOp' = UserOp("send-message")
  /\ UNCHANGED <<idle, inbox, appVars, cardVars, externalThinkingCount, aiMode,
                 critiquePc, closure, steps>>

\* sendMessage(input) from the enabled send button.
SendMessage ==
  /\ Rendered /\ ~focusMode
  /\ ~isLoading
  /\ Len(sess) < MaxSessions
  /\ messages' = Append(messages, Msg("user", <<"hi">>))
  /\ isLoading' = TRUE
  /\ streamingContent' = <<>>
  /\ sess' = Append(sess, NewChat(FALSE))
  /\ lastOp' = UserOp("send-message")
  /\ UNCHANGED <<idle, inbox, appVars, cardVars, externalThinkingCount, aiMode,
                 critiquePc, closure, steps>>

\* handleCritique up to its first await.
HandleCritique ==
  /\ Rendered /\ ~focusMode
  /\ ~isLoading
  /\ activeFile.content # <<>>
  /\ Len(sess) < MaxSessions
  /\ messages' = Append(messages, Msg("user", <<"Critique this writing.">>))
  /\ isLoading' = TRUE
  /\ streamingContent' = <<>>
  /\ aiMode' = "critique"
  /\ critiquePc' = "gathering"
  /\ lastOp' = UserOp("critique")
  /\ UNCHANGED <<idle, mainVars, appVars, cardVars, externalThinkingCount,
                 closure, steps>>

\* handleCritique after its awaits: the prompt is sent.
CritiqueDispatch ==
  /\ critiquePc = "gathering"
  /\ Len(sess) < MaxSessions
  /\ critiquePc' = "idle"
  /\ sess' = Append(sess, NewChat(TRUE))
  /\ UNCHANGED <<idle, inbox, appVars, cardVars, isLoading, streamingContent,
                 messages, externalThinkingCount, aiMode, closure, lastOp, steps>>

\* The effects run again: the listeners capture the current render.
Render ==
  /\ ~Rendered
  /\ closure' = [streamingContent |-> streamingContent, activeFile |-> activeFile]
  /\ UNCHANGED <<idle, mainVars, appVars, cardVars, panelVars, lastOp, steps>>

\* The focus-mode button of App.  Entering the focus mode unmounts the
\* AIChatPanel: its state is lost and its listeners are removed; leaving it
\* mounts a new panel on the initial state.  The session-storage item 'ai-mode'
\* and a handleCritique that awaits its context are not affected.
ToggleFocus ==
  /\ Rendered
  /\ focusMode' = ~focusMode
  /\ kept' = FALSE
  /\ isLoading' = FALSE
  /\ streamingContent' = <<>>
  /\ messages' = <<>>
  /\ externalThinkingCount' = 0
  /\ closure' = [streamingContent |-> <<>>, activeFile |-> activeFile]
  /\ lastOp' = UserOp("focus")
  /\ steps' = steps + 1
  /\ UNCHANGED <<tvars, gvars, qvars, wvars, ovars, mainVars, appVars, cardVars,
                 aiMode,
                 critiquePc>>

\* The 'ai-completion-chunk' listener.
HandleAiChunk ==
  /\ inbox # <<>> /\ Head(inbox).type = "ai-completion-chunk"
  /\ inbox' = Tail(inbox)
  /\ lastOp' = Head(inbox)
  /\ streamingContent' =
       IF focusMode THEN streamingContent
       ELSE Append(streamingContent, Head(inbox).arg)
  /\ UNCHANGED <<idle, sess, appVars, cardVars, isLoading, messages,
                 externalThinkingCount, aiMode, critiquePc, closure, steps>>

\* App's handleCritiqueReceived, with the activeFile its closure holds, followed
\* by handleSaveFile and setForcedChapterTab('critique'): the new activeFile.
CritiqueFile(af, critiqueText) ==
  [name |-> af.name, content |-> newContent(af.content, critiqueText)]

\* The ChapterCard after the critique was stored: forceTab selects the critique
\* tab in the render in which the content prop changes.
CardForced(c, old, new) ==
  IF new.name # old.name
  THEN [Mount(new.content) EXCEPT !.activeTab = "critique", !.doc = <<>>]
  ELSE CardAfter([c EXCEPT !.activeTab = "critique"], old, new)

\* An error listener that would store what was streamed so far as the critique.
HandleAiErrorCommit ==
  LET new == CritiqueFile(activeFile, streamingContent) IN
  /\ inbox # <<>> /\ Head(inbox).type = "ai-completion-error"
  /\ inbox' = Tail(inbox)
  /\ lastOp' = Head(inbox)
  /\ isLoading' = FALSE
  /\ messages' = Append(messages, Msg("ai", <<"Error: ", Head(inbox).arg>>))
  /\ streamingContent' = <<>>
  /\ IF aiMode = "critique" /\ Mounted
     THEN /\ activeFile' = new
          /\ disk' = [disk EXCEPT ![new.name] = new.content]
          /\ card' = CardForced(card, activeFile, new)
     ELSE UNCHANGED <<activeFile, disk, card>>
  /\ UNCHANGED <<idle, sess, orphan, externalThinkingCount, aiMode,
                 critiquePc, closure, steps>>

\* The 'ai-completion-error' listener.
HandleAiError ==
  /\ inbox # <<>> /\ Head(inbox).type = "ai-completion-error"
  /\ inbox' = Tail(inbox)
  /\ lastOp' = Head(inbox)
  /\ IF focusMode
     THEN UNCHANGED <<isLoading, messages, streamingContent>>
     ELSE /\ isLoading' = FALSE
          /\ messages' = Append(messages, Msg("ai", <<"Error: ", Head(inbox).arg>>))
          /\ streamingContent' = <<>>
  /\ UNCHANGED <<idle, sess, appVars, cardVars, externalThinkingCount, aiMode,
                 critiquePc, closure, steps>>

\* The two 'ai-completion-end' listeners, in the order registered: the first
\* adds the message; the second, when its captured streamingContent is not
\* empty, adds it again, hands a critique to onCritique and clears the stream.
HandleAiEnd ==
  LET text == closure.streamingContent
      commit == text # <<>> /\ aiMode = "critique" /\ closure.activeFile.name # ""
      new == CritiqueFile(closure.activeFile, text)
  IN
  /\ inbox # <<>> /\ Head(inbox).type = "ai-completion-end"
  /\ inbox' = Tail(inbox)
  /\ lastOp' = Head(inbox)
  /\ IF focusMode
     THEN UNCHANGED <<isLoading, messages, streamingContent, aiMode, activeFile,
                      disk, card, orphan, sess>>
     ELSE /\ isLoading' = FALSE
          /\ messages' = IF text # <<>>
                         THEN messages \o <<Msg("ai", text), Msg("ai", text)>>
                         ELSE Append(messages, Msg("ai", text))
          /\ streamingContent' = IF text # <<>> THEN <<>> ELSE streamingContent
          /\ aiMode' = IF text # <<>> /\ aiMode = "critique" THEN "none" ELSE aiMode
          /\ IF commit
             THEN /\ activeFile' = new
                  /\ disk' = [disk EXCEPT ![new.name] = new.content]
                  /\ card' = CardForced(card, activeFile, new)
                  /\ orphan' = OrphanAfter(card, activeFile, new)
                  /\ sess' = SessAfter(activeFile, new)
             ELSE UNCHANGED <<activeFile, disk, card, orphan, sess>>
  /\ UNCHANGED <<idle, externalThinkingCount, critiquePc, closure, steps>>

\* ------------------------------------------------- the rewrite prompt
\* JSON.stringify of a parsed object: its members, without white space.
RECURSIVE StringifyMembers(_)
StringifyMembers(obj) ==
  IF obj = <<>> THEN <<>>
  ELSE <<obj[1][1], ":">> \o JsonString(obj[1][2])
         \o (IF Len(obj) > 1 THEN <<",">> ELSE <<>>)
         \o StringifyMembers(Tail(obj))

Stringify(p) ==
  IF p.kind = "object" THEN <<"{">> \o StringifyMembers(p.obj) \o <<"}">>
  ELSE IF p.kind = "number" THEN <<"1">>
  ELSE <<"null">>

\* file.category.slice(0, -1)
Singular(category) ==
  CASE category = "Characters" -> "Character"
    [] category = "Places" -> "Place"
    [] category = "Objects" -> "Object"
    [] OTHER -> "Chapter"

\* The part of the context string that fetchProjectContext adds for one file:
\* nothing when 'read-file' fails; the raw content when JSON.parse throws or the
\* value is null (reading a member of null throws inside the try).
ContextEntry(file) ==
  LET p == JsonParse(file.content)
      header(name) == <<"[", Singular(file.category), ": ">> \o name \o <<"]", "\n">>
  IN  IF ~file.ok THEN <<>>
      ELSE IF ~p.ok \/ p.kind = "null"
           THEN header(file.name) \o file.content \o <<"\n", "\n">>
      ELSE LET description == Member(p.obj, "description")
               summaryM == Member(p.obj, "summary")
               contentM == Member(p.obj, "content")
               name == Member(p.obj, "name")
               summary == IF description # <<>> THEN description
                          ELSE IF summaryM # <<>> THEN summaryM
                          ELSE IF contentM # <<>> THEN contentM
                          ELSE Stringify(p)
           IN  header(IF name # <<>> THEN name ELSE file.name)
                 \o summary \o <<"\n", "\n">>

\* fetchProjectContext: the entries of the character, place and object files,
\* in the order of 'get-files'.
RECURSIVE fetchProjectContext(_)
fetchProjectContext(files) ==
  IF files = <<>> THEN <<>>
  ELSE (IF Head(files).category \in {"Characters", "Places", "Objects"}
        THEN ContextEntry(Head(files)) ELSE <<>>)
         \o fetchProjectContext(Tail(files))

instructionBlock(mode) ==
  CASE mode = "rewrite" -> <<"Rewrite the selected text to improve flow, tone, and clarity while maintaining the author's voice.">>
    [] mode = "shorter" -> <<"Rewrite the selected text to be more concise">>
    [] OTHER -> <<"Expand the selected text by adding vivid detail and color">>

styleNotes(style) ==
  IF Trim(style) # <<>>
  THEN <<"\n", "Style Notes (from this chapter's settings):", "\n">>
         \o Trim(style) \o <<"\n">>
  ELSE <<>>

\* The prompt of runRewrite, from the style its closure holds.
RewritePrompt(mode, style, contextString, fullText, selectedText) ==
  <<"\n", "You are an expert story editor.", "\n", "\n", "Task:", "\n">>
    \o instructionBlock(mode) \o <<"\n">> \o styleNotes(style) \o <<"\n", "\n">>
    \o <<"Project Context (Characters, Places, Objects):", "\n">>
    \o contextString \o <<"\n", "\n">>
    \o <<"Create Reference (Chapter Context - DO NOT OUTPUT THIS):", "\n">>
    \o fullText \o <<"\n", "\n">>
    \o <<"Selected Text:", "\n">> \o selectedText \o <<"\n", "\n">>
    \o <<"Output only the rewritten text.", "\n">>

\* The style notes, chapters and entity files the prompt is built for.
DrawnStyles == {<<>>, <<"n">>, <<" ">>, <<" ", "m">>}
StyleChapters ==
  {fileData([text |-> <<"<p>", "a", "b", "</p>">>, summary |-> <<>>,
             ageOffset |-> <<>>, style |-> st, critique |-> <<>>]) :
     st \in DrawnStyles}
ContextFile(category, name, ok, content) ==
  [category |-> category, name |-> name, ok |-> ok, content |-> content]
DrawnFiles ==
  {<<>>,
   <<ContextFile("Chapters", <<"c1.md">>, TRUE, <<"c">>)>>,
   <<ContextFile("Characters", <<"ann.json">>, TRUE,
                 <<"{", "description", ":", "\"", "d", "\"", "}">>)>>,
   <<ContextFile("Characters", <<"ann.json">>, TRUE,
                 <<"{", "name", ":", "\"", "Ann", "\"", ",",
                   "summary", ":", "\"", "s", "\"", "}">>),
     ContextFile("Places", <<"inn.json">>, TRUE, <<"a", " ">>)>>,
   <<ContextFile("Objects", <<"key.json">>, TRUE,
                 <<"{", "x", ":", "\"", "y", "\"", "}">>),
     ContextFile("Places", <<"inn.json">>, FALSE, <<>>)>>,
   <<ContextFile("Objects", <<"key.json">>, TRUE, <<"null">>)>>}

\* A ChapterCard mounted on a drawn chapter.  The effect that registers the
\* rewrite listeners runs once per editor instance: in the render in which
\* useEditor first returns the editor.  That is the first render, whose style
\* is the initial '', or the render after the parse effect has stored the
\* style of the file, depending on when the editor is created.
StyleInit ==
  /\ wPc = "mounted"
  /\ \E content \in StyleChapters :
       LET d == Parse(content) IN
       /\ wStyle = d.style
       /\ wSeen \in {<<>>, d.style}
       /\ wDoc = ParseHTML(d.text)
  /\ wSel \in SelRanges(2)
  /\ wFiles \in DrawnFiles
  /\ wPrompt = <<>>

StyleIdle ==
  /\ wPc = "mounted" /\ wStyle = <<>> /\ wSeen = <<>> /\ wDoc = <<>>
  /\ wSel = <<0, 0>> /\ wFiles = <<>> /\ wPrompt = <<>>

\* The user edits the style notes on the settings tab: setStyle(e.target.value).
EditStyle(x) ==
  /\ wPc = "mounted"
  /\ x \in DrawnStyles /\ x # wStyle
  /\ wStyle' = x
  /\ UNCHANGED <<wPc, wSeen, wDoc, wSel, wFiles, wPrompt>>
  /\ UNCHANGED <<tvars, avars, gvars, qvars, focusVars, ovars>>

\* runRewrite(mode) up to the send, with nothing happening during its await.
RunRewrite(mode) ==
  /\ wPc = "mounted"
  /\ wSel[1] # wSel[2]
  /\ wPrompt' = RewritePrompt(mode, wSeen, fetchProjectContext(wFiles), wDoc,
                              TextBetween(wDoc, wSel[1], wSel[2]))
  /\ wDoc' = InsertDoc(wDoc, wSel, <<>>)
  /\ wSel' = InsertSel(wSel, <<>>)
  /\ wPc' = "sent"
  /\ UNCHANGED <<wStyle, wSeen, wFiles>>
  /\ UNCHANGED <<tvars, avars, gvars, qvars, focusVars, ovars>>

StyleNext ==
  \/ \E x \in DrawnStyles : EditStyle(x)
  \/ \E mode \in {"rewrite", "shorter", "longer"} : RunRewrite(mode)

\* --------------------------------------------- chapter order, export
\* The file names of the Chapters folder: two chapters and a name of white
\* space (rename-file takes any name).
ChapterNames == {"a.md", "b.md", " "}
OtherName == "zz.md"
BlankNames == {"", " "}

\* a.localeCompare(b) on these names, as a rank.
Rank(name) ==
  CASE name = "" -> 0
    [] name = " " -> 1
    [] name = "a.md" -> 2
    [] name = "b.md" -> 3
    [] OTHER -> 4

Range(s) == {s[i] : i \in 1..Len(s)}

\* [...names].sort((a, b) => a.localeCompare(b))
RECURSIVE SortNames(_)
SortNames(S) ==
  IF S = {} THEN <<>>
  ELSE LET m == CHOOSE x \in S : \A y \in S : Rank(x) <= Rank(y)
       IN  <<m>> \o SortNames(S \ {m})

\* Array.from(new Set(order)): the first occurrence of each name.
RECURSIVE Dedup(_)
Dedup(s) ==
  IF s = <<>> THEN <<>>
  ELSE LET r == Dedup(SubSeq(s, 1, Len(s) - 1)) IN
       IF s[Len(s)] \in Range(r) THEN r ELSE Append(r, s[Len(s)])

\* A setChapterOrder that would store a name as often as it is given.
setChapterOrderRepeating(order) ==
  SelectSeq(order, LAMBDA name : name \notin BlankNames)

\* setChapterOrder: what it stores as settings.chapterOrder.
setChapterOrder(order) ==
  Dedup(SelectSeq(order, LAMBDA name : name \notin BlankNames))

\* 'get-chapter-order': the saved names that exist, then the other files by name.
Normalized(files, savedOrder) ==
  LET orderedExisting == SelectSeq(savedOrder, LAMBDA file : file \in files)
      unorderedExisting == SortNames(files \ Range(orderedExisting))
  IN  orderedExisting \o unorderedExisting

\* A 'set-chapter-order' that would store the files by name.
NormalizedProvidedByName(files, order) == SortNames(files)

\* 'set-chapter-order': the given names that exist, once each, then the missing
\* files by name.
NormalizedProvided(files, order) ==
  LET filteredProvided == SelectSeq(Dedup(order), LAMBDA name : name \in files)
      missing == SortNames(files \ Range(filteredProvided))
  IN  filteredProvided \o missing

\* readAuctorConfig gives {} for a missing auctor.json, and writeAuctorConfig
\* then creates the file: the order is stored in either case.
WriteOrder(order) ==
  /\ chapterOrder' = [chapterOrder EXCEPT ![projectRoot] = setChapterOrder(order)]
  /\ auctorJson' = [auctorJson EXCEPT ![projectRoot] =
                      IF @.ok THEN @
                      ELSE [ok |-> TRUE, aiProvider |-> "", googleModel |-> <<>>]]

\* ipcMain.handle('get-chapter-order')
GetChapterOrder ==
  LET savedOrder == chapterOrder[projectRoot]
      normalized == Normalized(chaptersDir[projectRoot], savedOrder)
  IN  /\ IF normalized # savedOrder
         THEN WriteOrder(normalized)
         ELSE UNCHANGED <<chapterOrder, auctorJson>>
      /\ oOp' = "get-chapter-order"
      /\ oArg' = <<>>
      /\ oOrder' = normalized
      /\ UNCHANGED <<chaptersDir, pdf, projectRoot, envFile, processEnv, lastRequest>>
      /\ UNCHANGED <<tvars, avars, qvars, focusVars, wvars>>

\* ipcMain.handle('set-chapter-order') on an array of names.
SetChapterOrder(order) ==
  LET normalized == NormalizedProvided(chaptersDir[projectRoot], order) IN
  /\ WriteOrder(normalized)
  /\ oOp' = "set-chapter-order"
  /\ oArg' = order
  /\ oOrder' = normalized
  /\ UNCHANGED <<chaptersDir, pdf, projectRoot, envFile, processEnv, lastRequest>>
  /\ UNCHANGED <<tvars, avars, qvars, focusVars, wvars>>

\* reordered.splice(sourceIndex, 1) and reordered.splice(targetIndex, 0, moved)
Moved(chapters, sourceIndex, targetIndex) ==
  LET rest == SubSeq(chapters, 1, sourceIndex - 1)
                \o SubSeq(chapters, sourceIndex + 1, Len(chapters))
  IN  SubSeq(rest, 1, targetIndex - 1) \o <<chapters[sourceIndex]>>
        \o SubSeq(rest, targetIndex, Len(rest))

\* FileTree's handleChapterDrop on the order the tree shows after a refresh:
\* the dragged chapter takes the index of the target.
ChapterDrop(sourceIndex, targetIndex) ==
  /\ oOp = "get-chapter-order"
  /\ sourceIndex \in 1..Len(oOrder) /\ targetIndex \in 1..Len(oOrder)
  /\ sourceIndex # targetIndex
  /\ SetChapterOrder(Moved(oOrder, sourceIndex, targetIndex))

\* ipcMain.handle('create-file') in the category Chapters.
CreateFile(fileName) ==
  LET currentOrder == chapterOrder[projectRoot] IN
  /\ chaptersDir' = [chaptersDir EXCEPT ![projectRoot] = @ \cup {fileName}]
  /\ IF fileName \notin Range(currentOrder)
     THEN WriteOrder(Append(currentOrder, fileName))
     ELSE UNCHANGED <<chapterOrder, auctorJson>>
  /\ oOp' = "create-file"
  /\ oArg' = <<>>
  /\ UNCHANGED <<oOrder, pdf, projectRoot, envFile, processEnv, lastRequest>>
  /\ UNCHANGED <<tvars, avars, qvars, focusVars, wvars>>

\* ipcMain.handle('delete-file') in the category Chapters; unlink throws for a
\* file that is not there, and nothing is written then.
DeleteFile(fileName) ==
  LET currentOrder == chapterOrder[projectRoot] IN
  /\ IF fileName \in chaptersDir[projectRoot]
     THEN /\ chaptersDir' = [chaptersDir EXCEPT ![projectRoot] = @ \ {fileName}]
          /\ WriteOrder(SelectSeq(currentOrder, LAMBDA name : name # fileName))
     ELSE UNCHANGED <<chaptersDir, chapterOrder, auctorJson>>
  /\ oOp' = "delete-file"
  /\ oArg' = <<>>
  /\ UNCHANGED <<oOrder, pdf, projectRoot, envFile, processEnv, lastRequest>>
  /\ UNCHANGED <<tvars, avars, qvars, focusVars, wvars>>

\* ipcMain.handle('rename-file') in the category Chapters; rename throws for a
\* file that is not there and replaces a file that has the new name.
RenameFile(oldName, newName) ==
  LET currentOrder == chapterOrder[projectRoot]
      renamedOrder == [i \in 1..Len(currentOrder) |->
                         IF currentOrder[i] = oldName THEN newName
                         ELSE currentOrder[i]]
  IN
  /\ IF oldName \in chaptersDir[projectRoot]
     THEN /\ chaptersDir' = [chaptersDir EXCEPT ![projectRoot] =
                               (@ \ {oldName}) \cup {newName}]
          /\ WriteOrder(IF newName \in Range(renamedOrder) THEN renamedOrder
                        ELSE Append(renamedOrder, newName))
     ELSE UNCHANGED <<chaptersDir, chapterOrder, auctorJson>>
  /\ oOp' = "rename-file"
  /\ oArg' = <<>>
  /\ UNCHANGED <<oOrder, pdf, projectRoot, envFile, processEnv, lastRequest>>
  /\ UNCHANGED <<tvars, avars, qvars, focusVars, wvars>>

\* f.endsWith('.md') || f.endsWith('.txt'), and the title of the chapter:
\* file.replace(/\.(md|txt)$/, '')
Exportable(f) == f \in {"a.md", "b.md", OtherName}
ChapterTitle(f) ==
  CASE f = "a.md" -> "a"
    [] f = "b.md" -> "b"
    [] f = OtherName -> "zz"
    [] OTHER -> f

\* exportToPDF: the chapter files by name, a page for each and then the entries
\* of the table of contents in the order of the pages.  Without a chapter file
\* nothing is written.
ExportToPDF ==
  LET chapterFiles == SortNames({f \in chaptersDir[projectRoot] : Exportable(f)})
      titles == [i \in 1..Len(chapterFiles) |-> ChapterTitle(chapterFiles[i])]
  IN  /\ pdf' = IF chapterFiles = <<>> THEN pdf
                ELSE [pages |-> titles, toc |-> titles]
      /\ oOp' = "export"
      /\ oArg' = <<>>
      /\ UNCHANGED <<chaptersDir, chapterOrder, oOrder>>
      /\ UNCHANGED <<tvars, avars, gvars, qvars, focusVars, wvars>>

\* The arrays handed to 'set-chapter-order'.
DrawnOrders == StrsUpTo(ChapterNames \cup {OtherName}, MaxOrderLen)

NoPdf == [pages |-> <<>>, toc |-> <<>>]

\* A project whose Chapters folder holds any of the files and whose auctor.json
\* holds an order that setChapterOrder has stored.
OrderInit ==
  /\ projectRoot = "A"
  /\ \E files \in SUBSET ChapterNames, order \in DrawnOrders :
       /\ chaptersDir = [q \in Projects |-> IF q = "A" THEN files ELSE {}]
       /\ chapterOrder =
            [q \in Projects |-> IF q = "A" THEN setChapterOrder(order) ELSE <<>>]
  /\ auctorJson =
       [q \in Projects |->
          IF q = "A" THEN [ok |-> TRUE, aiProvider |-> "", googleModel |-> <<>>]
          ELSE NoAuctor]
  /\ envFile = [q \in Projects |-> NoEnv]
  /\ processEnv = [k \in EnvKeys |-> ""]
  /\ lastRequest = NoRequest
  /\ oOp = "" /\ oArg = <<>> /\ oOrder = <<>> /\ pdf = NoPdf

OrderIdle ==
  /\ chaptersDir = [q \in Projects |-> {}]
  /\ chapterOrder = [q \in Projects |-> <<>>]
  /\ oOp = "" /\ oArg = <<>> /\ oOrder = <<>> /\ pdf = NoPdf

\* The settings a save stores while the chapters are reordered.
OrderSettings ==
  {n \in NewSettings :
     /\ n.aiProvider = "openai" /\ n.googleModel = <<"gemini-pro">>
     /\ n.keys.XAI_API_KEY = "x-2"}

OrderNext ==
  \/ GetChapterOrder
  \/ \E order \in DrawnOrders : SetChapterOrder(order)
  \/ \E i, j \in 1..Cardinality(ChapterNames) : ChapterDrop(i, j)
  \/ \E f \in ChapterNames : CreateFile(f)
  \/ \E f \in ChapterNames : DeleteFile(f)
  \/ \E f, g \in ChapterNames : RenameFile(f, g)
  \/ \E n \in OrderSettings : SaveProjectSettings(n)
  \/ ExportToPDF

\* ------------------------------------------------------ specification
InitialDisk ==
  [f \in Files |->
     IF f = "Chapters/c1.md"
     THEN fileData([text |-> <<"<p>", "a", "b", "</p>">>, summary |-> <<"s">>,
                    ageOffset |-> <<>>, style |-> <<"n">>, critique |-> <<"k">>])
     ELSE <<"c">>]

AppInit ==
  /\ sess = <<>>
  /\ inbox = <<>>
  /\ disk = InitialDisk
  /\ activeFile = NoFile
  /\ card = Mount(<<>>)
  /\ orphan = 0
  /\ isLoading = FALSE
  /\ streamingContent = <<>>
  /\ messages = <<>>
  /\ externalThinkingCount = 0
  /\ aiMode = "none"
  /\ critiquePc = "idle"
  /\ closure = [streamingContent |-> <<>>, activeFile |-> NoFile]
  /\ lastOp = UserOp("")
  /\ steps = 0

\* The tag model stays at rest while the application runs, and conversely.
TagIdle ==
  /\ tPc = "start" /\ tDoc = EmptyDoc /\ tRaw = <<>> /\ tCrit = <<>>
  /\ tOut = <<>> /\ tParsed = EmptyDoc

FocusIdle == focusMode = FALSE /\ kept = TRUE

Init ==
  AppInit /\ TagIdle /\ GatewayIdle /\ PromptIdle /\ FocusIdle /\ StyleIdle
    /\ OrderIdle

MainProcess ==
  \E s \in 1..Len(sess) :
    HandlerStart(s) \/ StreamChunk(s) \/ StreamEnd(s) \/ StreamFail(s)

\* The rewrite flow: the user selects files and text and clicks the AI menu.
RewriteUser ==
  \/ /\ steps < MaxUserSteps
     /\ \/ \E f \in Files : SelectFile(f)
        \/ \E r \in SelRanges(Len(card.doc)) : UserSelect(r)
  \/ \E type \in TriggerTypes : MenuRewrite(type)

RewriteRenderer ==
  \/ \E ctxOk \in BOOLEAN : RewriteDispatch(ctxOk)
  \/ \E sends \in BOOLEAN : OrphanDispatch(sends)
  \/ HandleRewriteStart \/ HandleRewriteChunk \/ HandleRewriteEnd
  \/ HandleRewriteError
  \/ Render

Next == MainProcess \/ RewriteUser \/ RewriteRenderer

Spec == Init /\ [][Next]_vars

\* The chat flow: the user selects files, edits and saves the chapter, and uses
\* the chat panel.
ChatUser ==
  \/ /\ steps < MaxChatSteps
     /\ \/ \E f \in Files : SelectFile(f)
        \/ UserType
        \/ \E t \in {"text", "critique"} : UserTab(t)
        \/ HandleSave
  \/ SendMessage
  \/ HandleCritique

ChatRenderer ==
  \/ CritiqueDispatch
  \/ HandleAiChunk \/ HandleAiEnd \/ HandleAiError
  \/ Render

ChatNext == MainProcess \/ ChatUser \/ ChatRenderer

ChatSpec == Init /\ [][ChatNext]_vars

\* Both flows at once, for the properties of the dispatcher and of the flags.
DispatchUser ==
  \/ /\ steps < MaxDispatchSteps
     /\ \/ \E f \in Files : SelectFile(f)
        \/ \E r \in SelRanges(Len(card.doc)) : UserSelect(r)
  \/ \E type \in TriggerTypes : MenuRewrite(type)
  \/ SendMessage
  \/ HandleCritique

DispatchNext == MainProcess \/ DispatchUser \/ RewriteRenderer \/ ChatRenderer

DispatchSpec == Init /\ [][DispatchNext]_vars

TagStart ==
  TagInit /\ AppInit /\ GatewayIdle /\ PromptIdle /\ FocusIdle /\ StyleIdle
    /\ OrderIdle

TagSpec == TagStart /\ [][TagNext]_vars

\* The chat panel next to an open chapter: chapter c1 is open with its first
\* character selected; the user clicks the AI menu, uses the chat panel and
\* enters and leaves the focus mode.
PanelInit ==
  LET af == [name |-> "Chapters/c1.md", content |-> InitialDisk["Chapters/c1.md"]] IN
  /\ sess = <<>>
  /\ inbox = <<>>
  /\ disk = InitialDisk
  /\ activeFile = af
  /\ card = [Mount(af.content) EXCEPT !.sel = <<0, 1>>]
  /\ orphan = 0
  /\ isLoading = FALSE
  /\ streamingContent = <<>>
  /\ messages = <<>>
  /\ externalThinkingCount = 0
  /\ aiMode = "none"
  /\ critiquePc = "idle"
  /\ closure = [streamingContent |-> <<>>, activeFile |-> af]
  /\ lastOp = UserOp("")
  /\ steps = 0

PanelUser ==
  \/ steps < MaxPanelSteps /\ ToggleFocus
  \/ \E type \in TriggerTypes : MenuRewrite(type)
  \/ SendMessage
  \/ HandleCritique

PanelRenderer ==
  \/ \E ctxOk \in BOOLEAN : RewriteDispatch(ctxOk)
  \/ HandleRewriteStart \/ HandleRewriteChunk \/ HandleRewriteEnd
  \/ HandleRewriteError
  \/ CritiqueDispatch
  \/ HandleAiChunk \/ HandleAiEnd \/ HandleAiError
  \/ Render

PanelNext == MainProcess \/ PanelUser \/ PanelRenderer

PanelStart ==
  PanelInit /\ TagIdle /\ GatewayIdle /\ PromptIdle /\ FocusIdle /\ StyleIdle
    /\ OrderIdle

PanelSpec == PanelStart /\ [][PanelNext]_vars

\* The gateway on the settings a project can hold.
GatewayStart ==
  GatewayInit /\ AppInit /\ TagIdle /\ PromptIdle /\ FocusIdle /\ StyleIdle
    /\ OrderIdle

GatewaySpec == GatewayStart /\ [][GatewayNext]_vars

\* The critique prompt on drawn projects, chapters and character files.
PromptStart ==
  PromptInit /\ AppInit /\ TagIdle /\ GatewayIdle /\ FocusIdle /\ StyleIdle
    /\ OrderIdle

PromptSpec == PromptStart /\ [][BuildPrompt]_vars

\* The rewrite prompt on drawn chapters, style edits and entity files.
StyleStart ==
  StyleInit /\ AppInit /\ TagIdle /\ GatewayIdle /\ PromptIdle /\ FocusIdle
    /\ OrderIdle

StyleSpec == StyleStart /\ [][StyleNext]_vars

\* The chapter files, their order and the export of one project.
OrderStart ==
  OrderInit /\ AppInit /\ TagIdle /\ PromptIdle /\ FocusIdle /\ StyleIdle

OrderSpec == OrderStart /\ [][OrderNext]_vars

\* ========================================================= properties
Terminals == {"end", "error"}

\* The kind of event a channel name stands for.
KindOf(type) ==
  CASE type = "rewrite-text-start" -> "start"
    [] type \in {"rewrite-text-chunk", "ai-completion-chunk"} -> "chunk"
    [] type \in {"rewrite-text-end", "ai-completion-end"} -> "end"
    [] OTHER -> "error"

\* The events of session s that the window has not handled yet, as kinds.
Undelivered(s) ==
  LET q == SelectSeq(inbox, LAMBDA e : e.s = s) IN
  [i \in 1..Len(q) |-> KindOf(q[i].type)]

IsSuffix(a, b) == Len(a) <= Len(b) /\ SubSeq(b, Len(b) - Len(a) + 1, Len(b)) = a

\* The first k text parts of session s, in the order the provider produced them.
Chunks(s, k) == [i \in 1..k |-> ChunkTok(s, i)]

Rewrites == {s \in 1..Len(sess) : sess[s].chan = "rewrite"}
Chats == {s \in 1..Len(sess) : sess[s].chan = "chat"}

\* Session s has not ended for the renderer: the handler still runs, or its
\* terminal event waits in the queue.
Unfinished(s) == sess[s].pc # "done" \/ HasAny(Undelivered(s), Terminals)

\* C1: on either channel a session's events are chunks followed by one terminal
\* event ('rewrite-text-start' precedes them on the rewrite channel): nothing
\* follows End or Error, a finished handler has sent exactly one of them, and
\* the window receives the events in the order sent.
C1_EventSequence ==
  \A s \in 1..Len(sess) :
    LET o == sess[s].out
        body == IF sess[s].chan = "rewrite" /\ o # <<>> THEN Tail(o) ELSE o
    IN  /\ sess[s].chan = "rewrite" /\ o # <<>> => o[1] = "start"
        /\ \A i \in 1..Len(body) :
             body[i] = "chunk" \/ (i = Len(body) /\ body[i] \in Terminals)
        /\ sess[s].pc = "done" <=> (body # <<>> /\ body[Len(body)] \in Terminals)
        /\ Cardinality({i \in 1..Len(o) : o[i] \in Terminals}) <= 1
        /\ IsSuffix(Undelivered(s), o)

\* A chat session failed after one part, a rewrite session ended after two.
C1_Witness ==
  /\ \E s \in Chats : sess[s].out = <<"chunk", "error">>
  /\ \E s \in Rewrites : sess[s].out = <<"start", "chunk", "chunk", "end">>

\* A rewrite request of the mounted ChapterCard is in progress: a runRewrite
\* awaits the context, or a session it sent has not finished.
RewriteInFlight ==
  /\ Mounted
  /\ \/ card.pending # <<>>
     \/ \E s \in Rewrites : sess[s].own /\ sess[s].pc # "done"

\* C2: a rewrite trigger that arrives while a rewrite request of the document is
\* in progress changes neither the ChapterCard (document, selection, flag,
\* pending requests) nor the requests sent.
C2_ReentrantNoOp ==
  [][\A type \in TriggerTypes :
       MenuRewrite(type) /\ RewriteInFlight => UNCHANGED <<card, sess>>]_vars

\* C3: after the 'rewrite-text-error' of a session of the mounted ChapterCard,
\* with the cursor left alone since the request was sent, the document is the
\* one the request left with, at the place of the selection, what was inserted
\* so far and then the marker holding the message of the session; the flag is
\* false.
C3_ErrorMarker ==
  lastOp.type = "rewrite-text-error" /\ Mounted /\ sess[lastOp.s].own
    /\ ~card.touched
  => /\ card.doc = SubSeq(card.base, 1, card.at) \o card.ins
                     \o SubSeq(card.base, card.at + 1, Len(card.base))
     /\ IsSuffix(ErrorMarker(ErrorTok(lastOp.s)), card.ins)
     /\ ~card.isRewritingRef

\* The error arrived after a part was inserted.
C3_Witness ==
  /\ lastOp.type = "rewrite-text-error" /\ Mounted /\ sess[lastOp.s].own
  /\ ~card.touched
  /\ card.ins = Chunks(lastOp.s, 1) \o ErrorMarker(ErrorTok(lastOp.s))
  /\ Len(card.base) > card.at /\ card.at > 0

\* C4: no flag stays set without work that will clear it.  After an error event
\* the flag of its flow is false; isRewritingRef is true only while a runRewrite
\* awaits the context or a session of the ChapterCard has not finished (a
\* context that cannot be gathered does not stop the request); isLoading is true
\* only while handleCritique gathers its context or a chat session has not
\* finished.
C4_FailureEndsIdle ==
  /\ lastOp.type = "rewrite-text-error" => ~card.isRewritingRef
  /\ lastOp.type = "ai-completion-error" => ~isLoading
  /\ card.isRewritingRef =>
       \/ card.pending # <<>>
       \/ \E s \in Rewrites : sess[s].own /\ Unfinished(s)
  /\ isLoading => critiquePc = "gathering" \/ \E s \in Chats : Unfinished(s)

\* A rewrite session of the ChapterCard failed before any part, then a chat
\* session failed: both flags are false.
C4_Witness ==
  /\ lastOp.type = "ai-completion-error" /\ ~isLoading
  /\ Mounted /\ ~card.isRewritingRef
  /\ \E s \in Rewrites :
       sess[s].own /\ sess[s].out = <<"start", "error">> /\ ~Unfinished(s)

\* C9: a rewrite trigger with an empty selection changes nothing: not the
\* ChapterCard (document, selection, flag, pending requests), not the requests
\* sent, not the events.
C9_EmptySelectionNoOp ==
  [][\A type \in TriggerTypes :
       MenuRewrite(type) /\ Mounted /\ card.sel[1] = card.sel[2]
       => UNCHANGED <<card, orphan, sess, inbox>>]_vars

\* A trigger came with the cursor inside a document, with no request made.
C9_Witness ==
  /\ lastOp.type = "trigger" /\ Mounted
  /\ card.sel[1] = card.sel[2] /\ card.doc # <<>>
  /\ ~card.isRewritingRef /\ card.pending = <<>> /\ sess = <<>>

\* C10: after the 'rewrite-text-end' of a session of the mounted ChapterCard,
\* with the cursor left alone since the request was sent, the document is the
\* one the request left with all parts of the session, in order, at the place
\* of the selection.
C10_RewriteResult ==
  lastOp.type = "rewrite-text-end" /\ Mounted /\ sess[lastOp.s].own
    /\ ~card.touched
  => card.doc = SubSeq(card.base, 1, card.at)
                  \o Chunks(lastOp.s, sess[lastOp.s].k)
                  \o SubSeq(card.base, card.at + 1, Len(card.base))

\* The chapter text holds an edit that the file content of App does not.
Unsaved == Mounted /\ card.d.text # Parse(activeFile.content).text

\* C5: the 'ai-completion-end' that commits a critique to the open chapter
\* leaves an unsaved edit of the text in textContent and in the editor.
C5_EditPreserved ==
  [][HandleAiEnd /\ Unsaved /\ activeFile'.name = activeFile.name
       /\ activeFile'.content # activeFile.content
     => card'.d.text = card.d.text /\ card'.doc = card.doc]_vars

\* C6: after the 'ai-completion-end' of a critique session that delivered parts,
\* the critique section of the file the critique was asked for holds all parts
\* of the session, in order.
C6_CommittedCritique ==
  lastOp.type = "ai-completion-end" /\ sess[lastOp.s].crit
    /\ sess[lastOp.s].k > 0
  => Parse(disk[sess[lastOp.s].file]).critique
       = Chunks(lastOp.s, sess[lastOp.s].k)

\* No field of d holds a tag delimiter.
TagFree(d) ==
  ~HasAny(d.text \o d.summary \o d.ageOffset \o d.style \o d.critique, TagTokens)

\* C7 as stated: parse(serialize(doc)) = doc in all five fields.
C7_RoundTrip == tPc = "reloaded" /\ TagFree(tDoc) => tParsed = tDoc

\* C7: for a document without tag delimiters, the parse of what handleSave
\* writes gives the settings fields unchanged, and the text and the critique
\* without the white space at their ends.
C7_RoundTripTrimmed ==
  tPc = "reloaded" /\ TagFree(tDoc)
  => tParsed = [tDoc EXCEPT !.text = Trim(@), !.critique = Trim(@)]

\* A document with a quote in the summary and white space around its sections.
C7_Witness ==
  /\ tPc = "reloaded" /\ TagFree(tDoc)
  /\ tDoc.summary = <<"\"">> /\ tDoc.style = <<"\n">>
  /\ tDoc.text = <<"a", " ">> /\ tDoc.critique = <<"\n", "b">>

\* A file content whose sections are in order: no tag delimiter at all, or a
\* text section, and no delimiter inside the text or the settings section.
WellFormedRaw(raw) ==
  LET t == Match(raw, "<text>", "</text>")
      st == Match(raw, "<settings>", "</settings>")
  IN  HasAny(raw, TagTokens)
        => /\ t.found /\ ~HasAny(t.inner, TagTokens)
           /\ st.found => ~HasAny(st.inner, TagTokens)

\* C8 as stated: the parse of injectCritique(raw, critiqueText) has the text and
\* settings of the parse of raw, and critiqueText as critique.
C8_InjectFrame ==
  tPc = "reinjected"
  => LET p == Parse(tRaw) IN tParsed = [p EXCEPT !.critique = tCrit]

\* C8: for a well-formed raw and a critiqueText without tag delimiters, the
\* result holds the text and settings sections of raw verbatim (all of raw as
\* text when it has no tags), and its parse has the settings fields of raw, the
\* text of raw and critiqueText, both without the white space at their ends.
C8_InjectFrameTrimmed ==
  tPc = "reinjected" /\ WellFormedRaw(tRaw) /\ ~HasAny(tCrit, TagTokens)
  => LET p == Parse(tRaw)
         t == Match(tRaw, "<text>", "</text>")
         st == Match(tRaw, "<settings>", "</settings>")
     IN  /\ tParsed = [p EXCEPT !.text = Trim(@), !.critique = Trim(tCrit)]
         /\ Match(tOut, "<text>", "</text>").inner
              = IF t.found THEN t.inner ELSE tRaw
         /\ Match(tOut, "<settings>", "</settings>").inner = st.inner

\* A saved chapter with a critique receives another critique.
C8_Witness ==
  /\ tPc = "reinjected" /\ WellFormedRaw(tRaw)
  /\ Match(tRaw, "<settings>", "</settings>").found
  /\ Parse(tRaw).summary = <<"a">>
  /\ Parse(tRaw).critique = <<"b">> /\ tCrit = <<"b", "b">>

StoredProvider(a) == IF a.ok /\ a.aiProvider # "" THEN a.aiProvider ELSE "openai"
KeyName(provider) ==
  CASE provider = "google" -> "GOOGLE_GENERATIVE_AI_API_KEY"
    [] provider = "xai" -> "XAI_API_KEY"
    [] OTHER -> "OPENAI_API_KEY"
StoredKey(a, e) == e[KeyName(StoredProvider(a))]

Requested == GenerateAiCompletion \/ RewriteTextCompletion

\* C12: a completion request made while the open project stores no key for its
\* selected provider ends in the error of the missing key: no call is made, and
\* the handle holds no key.
C12_EmptyKeyBlocks ==
  [][Requested /\ auctorJson[projectRoot].ok
       /\ StoredKey(auctorJson[projectRoot], envFile[projectRoot]) = ""
     => lastRequest'.outcome = "error" /\ lastRequest'.handle.apiKey = ""]_vars

\* C13: the provider, the googleModel and the key a completion request uses are
\* the ones the files of the open project hold when the request is handled.
C13_FreshConfiguration ==
  [][Requested /\ auctorJson[projectRoot].ok
     => LET a == auctorJson[projectRoot]
            e == envFile[projectRoot]
        IN  /\ lastRequest'.config.provider = StoredProvider(a)
            /\ a.googleModel # <<>> => lastRequest'.config.googleModel = a.googleModel
            /\ lastRequest'.handle.apiKey = StoredKey(a, e)]_vars

\* googleModel without one leading 'models/'.
Unprefixed(m) == IF m # <<>> /\ Head(m) = "models/" THEN Tail(m) ELSE m

\* C14: the handle of a request is decided by the provider and the googleModel
\* read: openai (and the default) gives gpt-4-turbo on the SDK's own URL, google
\* gives googleModel with exactly one 'models/' put before its unprefixed name,
\* xai gives grok-beta on the OpenAI SDK at https://api.x.ai/v1; and both
\* handlers build the same handle from the same configuration.
C14_ModelSelection ==
  lastRequest.chan # ""
  => LET c == lastRequest.config
         h == lastRequest.handle
     IN  /\ c.provider = "google"
              => /\ h.sdk = "google"
                 /\ h.model = <<"models/">> \o Unprefixed(c.googleModel)
         /\ c.provider = "xai"
              => /\ h.sdk = "openai" /\ h.baseURL = "https://api.x.ai/v1"
                 /\ h.model = <<"grok-beta">>
         /\ c.provider = "openai"
              => /\ h.sdk = "openai" /\ h.baseURL = ""
                 /\ h.model = <<"gpt-4-turbo">>
         /\ ChatModel(c, processEnv) = RewriteModel(c, processEnv)

\* A rewrite request of a project that selects google with a model name saved
\* without the prefix, after a chat request could have been made.
C14_Witness ==
  /\ lastRequest.chan = "rewrite"
  /\ lastRequest.config.provider = "google"
  /\ lastRequest.config.googleModel = <<"gemini-pro">>
  /\ lastRequest.handle.model = <<"models/", "gemini-pro">>
  /\ auctorJson[projectRoot].googleModel = <<"gemini-pro">>

\* s holds sub at or after position from.
Occurs(sub, s, from) ==
  \E i \in from..(Len(s) - Len(sub) + 1) : SubSeq(s, i, i + Len(sub) - 1) = sub

\* Position of the first occurrence of a token, 0 if none.
First(s, tok) == IndexFrom(s, tok, 1)

\* C15: for a project with an overview, a chapter whose settings hold a summary
\* and a style note, and one character file, the prompt holds the project
\* overview, the chapter summary, the style note and the character line, each
\* after its section header, in that order, and then the chapter text without
\* its tags.
C15_PromptFragments ==
  LET d == Parse(qContent)
      po == First(qPrompt, "Project Overview:")
      cc == First(qPrompt, "Chapter Context:")
      ch == First(qPrompt, "Characters, Places & Objects:")
      tx == First(qPrompt, "---")
  IN  qPc = "built" /\ qProject.ok /\ qProject.overview # <<>>
        /\ Includes(qContent, "<text>") /\ d.summary # <<>> /\ d.style # <<>>
        /\ qEntity.exists /\ qEntity.json
      => /\ 0 < po /\ po < cc /\ cc < ch /\ ch < tx
         /\ Occurs(qProject.overview, SubSeq(qPrompt, po, cc), 1)
         /\ Occurs(<<"Chapter Summary: ">> \o d.summary, SubSeq(qPrompt, cc, ch), 1)
         /\ Occurs(<<"Writing Style Notes: ">> \o d.style, SubSeq(qPrompt, cc, ch), 1)
         /\ Occurs(<<"[Character: ">>, SubSeq(qPrompt, ch, tx), 1)
         /\ SubSeq(qPrompt, tx, Len(qPrompt)) = <<"---", "\n">> \o d.text \o <<"\n", "---">>

\* C16: for a file content with the three sections whose settings section is not
\* valid JSON, the parse gives the trimmed inner string of the settings section
\* as summary, empty ageOffset and style, and the trimmed text and critique.
C16_MalformedSettings ==
  tPc = "parsed"
  => \A t \in FrameTexts, st \in FrameSettings, c \in FrameCrits :
       tRaw = Framed(t, st, c) /\ ~JsonParse(Trim(st)).ok
       => tParsed = [text |-> Trim(t), summary |-> Trim(st), ageOffset |-> <<>>,
                     style |-> <<>>, critique |-> Trim(c)]

\* A chapter of the older format, its summary written as plain text, and one
\* whose settings object is broken.
C16_Witness ==
  /\ tPc = "parsed"
  /\ \/ tRaw = Framed(<<" ", "a">>, <<"\n", "a", "a">>, <<"b", "\n">>)
        /\ tParsed.summary = <<"a", "a">>
     \/ tRaw = Framed(<<"a">>, <<"{", "a">>, <<>>) /\ tParsed.summary = <<"{", "a">>
  /\ tParsed.text = <<"a">>

\* C17: a file content without the open tag of the text section is parsed as
\* text, all of it and as it is; the settings fields and the critique are empty.
C17_LegacyFallback ==
  tPc = "parsed" /\ ~Includes(tRaw, "<text>")
  => tParsed = [EmptyDoc EXCEPT !.text = tRaw]

\* Prose that ends in a blank, and a content that holds a settings section but
\* no text section.
C17_Witness ==
  /\ tPc = "parsed"
  /\ tRaw \in {<<"a", " ">>, <<"<settings>", "a", "</settings>">>}
  /\ tParsed.text = tRaw

\* C18: what handleSave writes is the text section, the settings section and
\* the critique section, in this order and each between its tags; the settings
\* section is a JSON object with the members summary, ageOffset and style of
\* the document; the file begins with the open tag of the text section, so that
\* its parse takes the tagged branch and not the legacy one.
C18_SerializeSections ==
  tPc \in {"saved", "reloaded"}
  => LET o == tOut
         n == Len(tOut)
     IN  /\ \E i, j \in 1..n :
              /\ i < j
              /\ o[1] = "<text>"
              /\ SubSeq(o, 2, i - 1) = <<"\n">> \o tDoc.text \o <<"\n">>
              /\ SubSeq(o, i, i + 2) = <<"</text>", "\n", "<settings>">>
              /\ LET p == JsonParse(SubSeq(o, i + 3, j - 1)) IN
                 /\ p.ok /\ p.kind = "object"
                 /\ p.obj = << <<"summary", tDoc.summary>>,
                               <<"ageOffset", tDoc.ageOffset>>,
                               <<"style", tDoc.style>> >>
              /\ SubSeq(o, j, j + 2) = <<"</settings>", "\n", "<critique>">>
              /\ SubSeq(o, j + 3, n - 1) = <<"\n">> \o tDoc.critique \o <<"\n">>
              /\ o[n] = "</critique>"
         /\ Includes(o, "<text>")
         /\ tPc = "reloaded" => tParsed.text # o

\* A document with a close tag in its text and in its critique and a quote in
\* its summary was saved and parsed again.
C18_Witness ==
  /\ tPc = "reloaded"
  /\ tDoc.text = <<"a", "</text>">> /\ tDoc.critique = <<"</critique>">>
  /\ tDoc.summary = <<"\"">>

\* The rewrite sessions whose 'rewrite-text-start' the window has handled and
\* whose end or error it has not.
Running ==
  {s \in Rewrites :
     /\ sess[s].out # <<>> /\ ~Includes(Undelivered(s), "start")
     /\ sess[s].pc # "done" \/ HasAny(Undelivered(s), Terminals)}

\* The panel shows dancing ellipses: its own while it waits for the first part
\* of a reply, or the thinking bubble of the rewrite jobs.
Ellipses ==
  /\ ~focusMode
  /\ \/ isLoading /\ streamingContent = <<>>
     \/ ~isLoading /\ externalThinkingCount > 0

ChatsInFlight ==
  Cardinality({s \in Chats : Unfinished(s)})
    + (IF critiquePc = "gathering" THEN 1 ELSE 0)

\* C20 as stated: isLoading is true from the request to the terminal event of
\* its session, and at most one chat or critique request is in progress.
C20_ChatSerialized ==
  /\ ChatsInFlight > 0 /\ ~focusMode => isLoading
  /\ ChatsInFlight <= 1

\* C20: as long as the panel was never unmounted, isLoading is true exactly
\* while a chat or critique request is in progress, and at most one is.
C20_ChatSerializedWhileMounted ==
  kept => /\ isLoading <=> ChatsInFlight > 0
          /\ ChatsInFlight <= 1

\* A second chat request was accepted after the first session had ended, with
\* the panel mounted all along; the flag is set for it.
C20_Witness ==
  /\ kept /\ isLoading /\ ChatsInFlight = 1
  /\ \E s \in Chats : ~Unfinished(s)
  /\ \E s \in Chats : Unfinished(s) /\ sess[s].pc = "stream"

\* The step in which the runRewrite of the mounted ChapterCard resumes after
\* its await, deletes the selection and sends its request.
RewriteSent ==
  /\ Mounted /\ card.pending # <<>>
  /\ card'.pending = Tail(card.pending)
  /\ Len(sess') = Len(sess) + 1
  /\ sess'[Len(sess')].chan = "rewrite" /\ sess'[Len(sess')].own

\* C21: when runRewrite sends its request, the text it has removed from the
\* document is the selected text it captured for the prompt, and the document
\* is then the one before the removal without that range.
C21_DeletesCaptured ==
  [][RewriteSent =>
       /\ TextBetween(card.doc, card.sel[1], card.sel[2])
            = Head(card.pending).selectedText
       /\ card'.doc = InsertDoc(card.doc, card.sel, <<>>)
       /\ Len(card'.doc) + Len(Head(card.pending).selectedText) = Len(card.doc)]_vars

\* C22 as stated: the prompt of a request holds the style notes whenever the
\* style of the chapter is not blank at the time of the request, and the
\* context block, the document text and the selected text.
C22_PromptHoldsStyle ==
  wPc = "sent"
  => /\ Trim(wStyle) # <<>>
          => Occurs(<<"Style Notes (from this chapter's settings):", "\n">>
                      \o Trim(wStyle), wPrompt, 1)
     /\ Occurs(<<"Project Context (Characters, Places, Objects):", "\n">>
                 \o fetchProjectContext(wFiles), wPrompt, 1)
     /\ \E sel \in SelRanges(2) :
          /\ sel[1] # sel[2]
          /\ wDoc = InsertDoc(<<"a", "b">>, sel, <<>>)
          /\ Occurs(<<"Create Reference (Chapter Context - DO NOT OUTPUT THIS):",
                      "\n", "a", "b">>, wPrompt, 1)
          /\ Occurs(<<"Selected Text:", "\n">> \o TextBetween(<<"a", "b">>, sel[1], sel[2]),
                    wPrompt, 1)

\* The step in which the window handles a 'rewrite-text-chunk' and the
\* listener of the mounted ChapterCard changes the document.
ChunkInserted ==
  /\ inbox # <<>> /\ Head(inbox).type = "rewrite-text-chunk"
  /\ inbox' = Tail(inbox)
  /\ card'.doc # card.doc

\* C23: a rewrite chunk changes the document only if its session was started
\* by the ChapterCard mounted now and has not ended for the window.
C23_ChunkOfOwnSession ==
  [][ChunkInserted =>
       /\ sess[Head(inbox).s].own
       /\ Unfinished(Head(inbox).s)]_vars

\* The step in which the window handles the 'ai-completion-end' of a session.
EndHandled ==
  /\ inbox # <<>> /\ Head(inbox).type = "ai-completion-end"
  /\ inbox' = Tail(inbox)

\* C24: the end of a session hands its text to onCritique (the item 'ai-mode'
\* is removed, the chapter file is written) only if the critique action
\* started the session.
C24_CritiqueOnlyFromCritique ==
  [][EndHandled /\ (aiMode' # aiMode \/ disk' # disk \/ activeFile' # activeFile)
       => sess[Head(inbox).s].crit]_vars

\* C25: the critique that the end of a session commits is written to the file
\* that was active when the critique was requested, and changes no other file.
C25_CommittedToRequestedFile ==
  [][EndHandled /\ sess[Head(inbox).s].crit /\ disk' # disk
       => \A f \in Files : disk'[f] # disk[f] => f = sess[Head(inbox).s].file]_vars

\* What 'get-chapter-order' returns in the current state of the open project.
CurrentOrder == Normalized(chaptersDir[projectRoot], chapterOrder[projectRoot])

NoRepeat(s) == \A i, j \in 1..Len(s) : s[i] = s[j] => i = j

\* C26 as stated: 'get-chapter-order' returns the same order before and after a
\* successful 'save-project-settings' (checked for folders whose files all
\* have chapter names).
C26_SaveKeepsOrder ==
  [][(\E n \in NewSettings : SaveProjectSettings(n))
       /\ (\A f \in chaptersDir[projectRoot] : Exportable(f))
       => CurrentOrder' = CurrentOrder]_vars

\* C28: in every state that the chapter handlers reach, 'get-chapter-order'
\* returns every file of the Chapters folder once and nothing else, the stored
\* chapterOrder holds no name twice and no blank name, and the order that
\* 'get-chapter-order' has just returned holds every file once and nothing else.
C28_OrderListsFiles ==
  /\ Range(CurrentOrder) = chaptersDir[projectRoot]
  /\ NoRepeat(CurrentOrder)
  /\ NoRepeat(chapterOrder[projectRoot])
  /\ Range(chapterOrder[projectRoot]) \cap BlankNames = {}
  /\ oOp = "get-chapter-order"
       => Range(oOrder) = chaptersDir[projectRoot] /\ NoRepeat(oOrder)

\* 'get-chapter-order' has returned three files, not in the order of their
\* names.
C28_Witness ==
  /\ oOp = "get-chapter-order"
  /\ Len(oOrder) = 3
  /\ oOrder # SortNames(chaptersDir[projectRoot])

\* The array given to 'set-chapter-order' is a permutation of the chapter files.
GivenPermutation ==
  /\ oOp = "set-chapter-order"
  /\ Range(oArg) = chaptersDir[projectRoot]
  /\ NoRepeat(oArg)

\* C29 as stated: after 'set-chapter-order' on a permutation of the chapter
\* files, 'get-chapter-order' returns that permutation.
C29_ReorderRoundTrip ==
  GivenPermutation => CurrentOrder = oArg

\* C29: after 'set-chapter-order' on a permutation of the chapter files, none
\* of which has a blank name, 'set-chapter-order' has returned and
\* 'get-chapter-order' returns that permutation.
C29_ReorderRoundTripNamed ==
  GivenPermutation /\ Range(oArg) \cap BlankNames = {}
    => CurrentOrder = oArg /\ oOrder = oArg

\* Two chapters were given in the order opposite to that of their names.
C29_Witness ==
  /\ GivenPermutation
  /\ oArg = <<"b.md", "a.md">>
  /\ CurrentOrder = oArg

\* C30 as stated: the export has a page and an entry for every chapter file, in
\* the order that 'get-chapter-order' returns (checked for folders whose files
\* all end in .md).
C30_ExportInOrder ==
  oOp = "export" /\ chaptersDir[projectRoot] # {}
    /\ (\A f \in chaptersDir[projectRoot] : Exportable(f))
    => LET titles == [i \in 1..Len(CurrentOrder) |-> ChapterTitle(CurrentOrder[i])]
       IN  pdf.pages = titles /\ pdf.toc = titles

\* The step in which the window handles the 'ai-completion-error' of a session.
ErrorHandled ==
  /\ inbox # <<>> /\ Head(inbox).type = "ai-completion-error"
  /\ inbox' = Tail(inbox)

\* C27 as stated: the end of a session that has sent text adds one AI message,
\* which holds all the text of the session, and an error adds one message
\* 'Error: ...' (checked for listeners that hold the current render).
C27_OneMessagePerSession ==
  [][/\ EndHandled /\ Rendered /\ sess[Head(inbox).s].k > 0
          => messages' = Append(messages,
                                Msg("ai", Chunks(Head(inbox).s,
                                                 sess[Head(inbox).s].k)))
     /\ ErrorHandled
          => messages' = Append(messages,
                                Msg("ai", <<"Error: ", Head(inbox).arg>>))]_vars

====
